---- MODULE Spec2Model ----
(***************************************************************************)
(* A model of glebradiotec/publisher_site: the legacy dump importer        *)
(* (migrate_old_db.py), the author-name heuristics of the data model       *)
(* (models.py) and the admin handlers that write the same tables           *)
(* (routes_admin.py).                                                      *)
(*                                                                         *)
(* Text is modelled at character level: a string is a sequence of          *)
(* one-character strings.  Cyrillic letters are written as tokens          *)
(* ("c_o" for the lower-case letter, "C_O" for the upper-case one).        *)
(***************************************************************************)
EXTENDS Integers, Sequences, FiniteSets, TLC

VARIABLES
    \* ---- parse_values (migrate_old_db.py:47-134)
    p_pc,           \* "off" | "start" | "scan" | "done"
    insert_line,    \* the line handed to parse_values
    src_rows,       \* how the line was written: tuples of fields (ground truth)
    data, i, rows, current_row, current_val, in_string, escape_next, paren_depth,
    \* ---- Article._looks_like_name, _clean_name, authors_str (models.py:111-156)
    n_pc,           \* "off" | "text" | "article"
    text,           \* the argument of _looks_like_name and _clean_name
    verdict,        \* <<>> or <<the boolean _looks_like_name returned>>
    cleaned,        \* <<>> or <<what _clean_name(text) returned>>
    recleaned,      \* <<>> or <<what _clean_name returned for cleaned[1]>>
    authors,        \* the ArticleAuthor rows of one Article
    shown,          \* <<>> or <<what authors_str returned>>
    \* ---- the normalized store (models.py) and run_migration (migrate_old_db.py:213-472)
    db,             \* the committed tables: journals, issues, articles, authors, users
    sess,           \* the tables as the importer's session sees them (db + flushed rows)
    mig_pc,         \* "idle" | "journals" | "issues" | "articles" | "commit"
    dump,           \* what extract_table_data returned for the four legacy tables
    row_i,          \* position of the running for-loop in its table (1-based)
    razd_to_nomer, old_to_new_journal, old_to_new_issue,
    journal_order, issue_count, article_count, author_count, skipped,
    run_log,        \* the outcomes of the latest runs made in a row on one dump
    \* ---- one call of parse_pages or of Article._looks_like_name on a value
    v_pc,           \* "off" | "pages" | "name"
    field,          \* the field of the row as parse_values returned it
    arg,            \* the value passed: a text, or what clean_val returns for a field
    returned,       \* <<>> or <<what the call returned or raised>>
    \* ---- create_backup (backup.py:7-32)
    b_pc,           \* "off" | "ready"
    db_path,        \* instance/publisher.db: whether it exists, when it last changed
    backups_dir,    \* the '.db' files of backups/: name (its timestamp) and mtime
    now,            \* the second the latest timestamp was taken in
    backup_path,    \* what the latest call returned: no path for None
    \* ---- requests of logged-in users to admin_user_add and admin_user_delete
    u_pc,           \* "off" | "serving"
    user_table,     \* the ids of the rows of User
    cookie,         \* per client: the user id its session holds, 0 for none
    request,        \* per client: how far the server is with its request
    response        \* per client: the status of its latest response, 0 for none

migVars == <<mig_pc, dump, row_i, razd_to_nomer, old_to_new_journal,
             old_to_new_issue, journal_order, issue_count, article_count,
             author_count, skipped>>

mainVars == <<db, sess, migVars, run_log>>

callVars == <<v_pc, field, arg, returned>>

nameVars == <<n_pc, text, verdict, cleaned, recleaned, authors, shown>>

parseVars == <<p_pc, insert_line, src_rows, data, i, rows, current_row,
               current_val, in_string, escape_next, paren_depth>>

backupVars == <<b_pc, db_path, backups_dir, now, backup_path>>

userVars == <<u_pc, user_table, cookie, request, response>>

vars == <<parseVars, nameVars, mainVars, callVars, backupVars, userVars>>

(***************************************************************************)
(* Bounds of the model                                                     *)
(***************************************************************************)
MaxTextLen == 3
MaxRawLen == 5
MaxTupleFields == 2
MaxTuples == 2
MaxPieces == 4
MaxCleanLen == 4
MaxAuthors == 3
MaxJournals == 2
MaxIssues == 2
MaxArticles == 2
MaxId == 2
MaxAuthorId == 3
MaxPagesLen == 3
MaxAuthorsLen == 4
MaxFileLen == 3
MaxChunk == 2
MaxNow == 12
MaxWrites == 2
MaxClients == 2
MaxUserId == 3

(***************************************************************************)
(* Characters and strings                                                  *)
(***************************************************************************)
QUOTE == "'"
BSLASH == "\\"
DQUOTE == "\""
LF == "\n"
CR == "\r"
SP == " "

Whitespace == {SP, "\t", LF, CR}
Digits == {"0", "1", "2", "3", "4", "5", "6", "7", "8", "9"}

Str(S, n) == UNION {[1..k -> S] : k \in 0..n}

StartsWithAt(s, p, k) ==
    /\ k + Len(p) - 1 <= Len(s)
    /\ \A j \in 1..Len(p) : s[k + j - 1] = p[j]

Contains(s, p) == \E k \in 1..(Len(s) + 1) : StartsWithAt(s, p, k)

\* str.replace(old, new): left to right, non-overlapping
RECURSIVE ReplaceFrom(_, _, _, _)
ReplaceFrom(s, old, new, k) ==
    IF k > Len(s) THEN <<>>
    ELSE IF StartsWithAt(s, old, k)
         THEN new \o ReplaceFrom(s, old, new, k + Len(old))
         ELSE <<s[k]>> \o ReplaceFrom(s, old, new, k + 1)

Replace(s, old, new) == ReplaceFrom(s, old, new, 1)

\* str.lstrip(chars) / str.rstrip(chars) / str.strip(chars)
RECURSIVE LStripSet(_, _)
LStripSet(s, S) ==
    IF s # <<>> /\ Head(s) \in S THEN LStripSet(Tail(s), S) ELSE s

RECURSIVE RStripSet(_, _)
RStripSet(s, S) ==
    IF s # <<>> /\ s[Len(s)] \in S
    THEN RStripSet(SubSeq(s, 1, Len(s) - 1), S)
    ELSE s

StripSet(s, S) == LStripSet(RStripSet(s, S), S)

Strip(s) == StripSet(s, Whitespace)

RECURSIVE Join(_, _)
Join(parts, sep) ==
    IF parts = <<>> THEN <<>>
    ELSE IF Len(parts) = 1 THEN parts[1]
    ELSE parts[1] \o sep \o Join(Tail(parts), sep)

(***************************************************************************)
(* Letters: the classes the regular expressions and str methods tell apart *)
(***************************************************************************)
CyrLowerSeq ==
    <<"c_a", "c_b", "c_v", "c_g", "c_d", "c_e", "c_yo", "c_zh", "c_z", "c_i",
      "c_j", "c_k", "c_l", "c_m", "c_n", "c_o", "c_p", "c_r", "c_s", "c_t",
      "c_u", "c_f", "c_kh", "c_ts", "c_ch", "c_sh", "c_shch", "c_hard",
      "c_y", "c_soft", "c_eh", "c_yu", "c_ya">>

CyrUpperSeq ==
    <<"C_A", "C_B", "C_V", "C_G", "C_D", "C_E", "C_YO", "C_ZH", "C_Z", "C_I",
      "C_J", "C_K", "C_L", "C_M", "C_N", "C_O", "C_P", "C_R", "C_S", "C_T",
      "C_U", "C_F", "C_KH", "C_TS", "C_CH", "C_SH", "C_SHCH", "C_HARD",
      "C_Y", "C_SOFT", "C_EH", "C_YU", "C_YA">>

LatLowerSeq ==
    <<"a", "b", "c", "d", "e", "f", "g", "h", "i", "j", "k", "l", "m", "n",
      "o", "p", "q", "r", "s", "t", "u", "v", "w", "x", "y", "z">>

LatUpperSeq ==
    <<"A", "B", "C", "D", "E", "F", "G", "H", "I", "J", "K", "L", "M", "N",
      "O", "P", "Q", "R", "S", "T", "U", "V", "W", "X", "Y", "Z">>

Range(f) == {f[x] : x \in DOMAIN f}

CyrLower == Range(CyrLowerSeq)
CyrUpper == Range(CyrUpperSeq)
LatLower == Range(LatLowerSeq)
LatUpper == Range(LatUpperSeq)

\* U+2212 and U+2013, and the superscript digits
MINUS == "MINUS"
ENDASH == "ENDASH"
EMDASH == "EMDASH"
Superscripts ==
    {"SUP0", "SUP1", "SUP2", "SUP3", "SUP4", "SUP5", "SUP6", "SUP7", "SUP8", "SUP9"}

\* str.isupper() of one character
IsUpper(c) == c \in CyrUpper \cup LatUpper

\* str.isalnum() of one character
IsAlnum(c) ==
    c \in CyrUpper \cup CyrLower \cup LatUpper \cup LatLower \cup Digits
          \cup Superscripts

\* str.lower()
LowerChar(c) ==
    IF c \in CyrUpper
    THEN CyrLowerSeq[CHOOSE x \in DOMAIN CyrUpperSeq : CyrUpperSeq[x] = c]
    ELSE IF c \in LatUpper
    THEN LatLowerSeq[CHOOSE x \in DOMAIN LatUpperSeq : LatUpperSeq[x] = c]
    ELSE c

Lower(s) == [x \in DOMAIN s |-> LowerChar(s[x])]

\* str.split(): the maximal runs of non-whitespace
RECURSIVE Split(_)
Split(s) ==
    LET t == LStripSet(s, Whitespace)
        stops == {x \in 1..Len(t) : t[x] \in Whitespace}
        e == IF stops = {} THEN Len(t) + 1
             ELSE CHOOSE x \in stops : \A y \in stops : x <= y
    IN  IF t = <<>> THEN <<>>
        ELSE <<SubSeq(t, 1, e - 1)>> \o Split(SubSeq(t, e, Len(t)))

(***************************************************************************)
(* re.search for the patterns of models.py: a pattern is a sequence of     *)
(* items, each a character class taken once, optionally or one-or-more.    *)
(***************************************************************************)
One(cls) == [cls |-> cls, q |-> "one"]
Opt(cls) == [cls |-> cls, q |-> "opt"]
Plus(cls) == [cls |-> cls, q |-> "plus"]

RECURSIVE MatchAt(_, _, _, _)
MatchAt(t, pat, k, pos) ==
    IF k > Len(pat) THEN TRUE
    ELSE LET it == pat[k]
             here == pos <= Len(t) /\ t[pos] \in it.cls
         IN  CASE it.q = "one" -> here /\ MatchAt(t, pat, k + 1, pos + 1)
               [] it.q = "opt" -> \/ (here /\ MatchAt(t, pat, k + 1, pos + 1))
                                  \/ MatchAt(t, pat, k + 1, pos)
               [] it.q = "plus" -> here /\ (\/ MatchAt(t, pat, k, pos + 1)
                                            \/ MatchAt(t, pat, k + 1, pos + 1))

Search(pat, t) == \E pos \in 1..Len(t) : MatchAt(t, pat, 1, pos)

(***************************************************************************)
(* Article._looks_like_name (models.py:114-143)                            *)
(***************************************************************************)
Denylist ==
    {<<"c_k", "c_a", "c_f", "c_e", "c_d", "c_r">>,
     <<"c_u", "c_n", "c_i", "c_v", "c_e", "c_r", "c_s", "c_i">>,
     <<"c_i", "c_n", "c_s", "c_t", "c_i", "c_t", "c_u", "c_t">>,
     <<"c_f", "c_a", "c_k", "c_u", "c_l", "c_soft", "c_t", "c_e", "c_t">>,
     <<"c_l", "c_a", "c_b", "c_o", "c_r", "c_a", "c_t", "c_o", "c_r">>,
     <<"c_o", "c_t", "c_d", "c_e", "c_l">>,
     <<"e", "-", "m", "a", "i", "l">>,
     <<"e", "m", "a", "i", "l">>,
     <<"m", "a", "i", "l", ".", "r", "u">>,
     <<"y", "a", "n", "d", "e", "x">>,
     <<"c_s", "c_o", "c_t", "c_r", "c_u", "c_d", "c_n", "c_i", "c_k">>,
     <<"c_n", "c_a", "c_ch", "c_a", "c_l", "c_soft", "c_n", "c_i", "c_k">>,
     <<"c_d", "c_i", "c_r", "c_e", "c_k", "c_t", "c_o", "c_r">>,
     <<"c_z", "c_a", "c_v", "c_e", "c_d", "c_u", "c_yu", "c_shch">>,
     <<"c_a", "c_k", "c_a", "c_d", "c_e", "c_m", "c_i">>,
     <<"c_d", "c_o", "c_ts", "c_e", "c_n", "c_t">>,
     <<"c_p", "c_r", "c_o", "c_f", "c_e", "c_s", "c_s", "c_o", "c_r">>,
     <<"c_o", "c_r", "c_g", "c_a", "c_n", "c_i", "c_ch", "c_e", "c_s", "c_k", "c_o", "c_j">>,
     <<"c_t", "c_e", "c_kh", "c_n", "c_i", "c_ch", "c_e", "c_s", "c_k", "c_o", "c_j">>,
     <<"c_g", "c_o", "c_s", "c_u", "c_d", "c_a", "c_r", "c_s", "c_t", "c_v", "c_e", "c_n">>}

\* [A-YA YO][a-ya yo]+\s+[A-YA YO]\.            (models.py:131, 135)
SurnameInitial(U, L) == <<One(U), Plus(L), Plus(Whitespace), One(U), One({"."})>>

\* [A-YA YO]\.\s?[A-YA YO]?\.?\s?[A-YA YO][a-ya yo]+   (models.py:133, 137)
InitialsSurname(U, L) ==
    <<One(U), One({"."}), Opt(Whitespace), Opt(U), Opt({"."}), Opt(Whitespace),
      One(U), Plus(L)>>

NamePatterns ==
    <<SurnameInitial(CyrUpper, CyrLower), InitialsSurname(CyrUpper, CyrLower),
      SurnameInitial(LatUpper, LatLower), InitialsSurname(LatUpper, LatLower)>>

MaxNameLen == 40
MaxPlainNameLen == 25

\* line 122: any(w in t.lower() for w in [...])
HasNoise(t) == \E w \in Denylist : Contains(Lower(t), w)

\* lines 131-138: one of the four re.search calls finds a match
HasNameShape(t) == \E x \in DOMAIN NamePatterns : Search(NamePatterns[x], t)

\* lines 140-141: 2 or 3 words, short, every word capitalized
IsPlainName(t) ==
    LET words == Split(t)
    IN  /\ Len(words) \in {2, 3}
        /\ Len(t) <= MaxPlainNameLen
        /\ \A x \in DOMAIN words : IsUpper(words[x][1])

\* the name shapes tried before the denylist
looks_like_name_shape_first(txt) ==
    LET t == Strip(txt)
    IN  IF t = <<>> \/ Len(t) > MaxNameLen THEN FALSE
        ELSE IF HasNameShape(t) THEN TRUE
        ELSE IF HasNoise(t) THEN FALSE
        ELSE IF IsPlainName(t) THEN TRUE
        ELSE FALSE

looks_like_name(txt) ==
    LET t == Strip(txt)
    IN  IF t = <<>> \/ Len(t) > MaxNameLen THEN FALSE
        ELSE IF HasNoise(t) THEN FALSE
        ELSE IF HasNameShape(t) THEN TRUE
        ELSE IF IsPlainName(t) THEN TRUE
        ELSE FALSE

(***************************************************************************)
(* Article._clean_name (models.py:145-150)                                 *)
(***************************************************************************)
\* the character class of the pattern: \s \d U+2212 U+2013 and superscripts
IndexChars == Whitespace \cup Digits \cup {MINUS, ENDASH} \cup Superscripts

\* re.sub(r'[...]+$', '', text): the whole trailing run of the class goes
\* the pattern without its "+": one trailing character goes
SubTrailingOne(txt) ==
    IF txt # <<>> /\ txt[Len(txt)] \in IndexChars
    THEN SubSeq(txt, 1, Len(txt) - 1)
    ELSE txt

SubTrailingRun(txt) == RStripSet(txt, IndexChars)

clean_name(txt) == Strip(SubTrailingRun(txt))

(***************************************************************************)
(* Article.authors and Article.authors_str (models.py:111-112, 152-156)    *)
(***************************************************************************)
Author(o, name) == [order |-> o, full_name |-> name]

\* relationship(..., order_by='ArticleAuthor.order'): the rows by ascending order
RECURSIVE ByOrder(_)
ByOrder(as) ==
    IF as = {} THEN <<>>
    ELSE LET a == CHOOSE x \in as : \A y \in as : x.order <= y.order
         IN  <<a>> \o ByOrder(as \ {a})

\* no filter: every stored author is shown
KeptAnyAuthor(a) == TRUE

KeptAuthor(a) == looks_like_name(a.full_name)

authors_str(as) ==
    LET kept == SelectSeq(ByOrder(as), KeptAuthor)
        names == [x \in DOMAIN kept |-> clean_name(kept[x].full_name)]
    IN  IF names # <<>> THEN Join(names, <<",", SP>>) ELSE <<>>

(***************************************************************************)
(* clean_val (migrate_old_db.py:137-153)                                   *)
(* A cleaned value is None, a number or a text.                            *)
(***************************************************************************)
None == [k |-> "none", n |-> 0, s |-> <<>>]
IntVal(n) == [k |-> "int", n |-> n, s |-> <<>>]
FloatVal(s) == [k |-> "float", n |-> 0, s |-> s]
Text(s) == [k |-> "text", n |-> 0, s |-> s]

DigitValue(c) ==
    CASE c = "0" -> 0 [] c = "1" -> 1 [] c = "2" -> 2 [] c = "3" -> 3
      [] c = "4" -> 4 [] c = "5" -> 5 [] c = "6" -> 6 [] c = "7" -> 7
      [] c = "8" -> 8 [] c = "9" -> 9

RECURSIVE DigitsToInt(_)
DigitsToInt(s) ==
    IF s = <<>> THEN 0
    ELSE 10 * DigitsToInt(SubSeq(s, 1, Len(s) - 1)) + DigitValue(s[Len(s)])

AllDigits(s) == s # <<>> /\ \A j \in 1..Len(s) : s[j] \in Digits

Unsigned(s) == IF s # <<>> /\ s[1] \in {"-", "+"} THEN Tail(s) ELSE s

\* int(val) succeeds: an optional sign and decimal digits
IsIntLiteral(s) == AllDigits(Unsigned(s))

ParseInt(s) ==
    IF s[1] = "-" THEN 0 - DigitsToInt(Tail(s)) ELSE DigitsToInt(Unsigned(s))

\* float(val) succeeds (tried only when "." is in val): digits around one "."
IsFloatLiteral(s) ==
    LET u == Unsigned(s)
        dots == {j \in 1..Len(u) : u[j] = "."}
    IN  /\ Cardinality(dots) = 1
        /\ Len(u) >= 2
        /\ \A j \in 1..Len(u) : u[j] \in Digits \cup {"."}

\* html.unescape, for the named entities a title or a name carries
HtmlUnescape(s) ==
    LET e1 == Replace(s, <<"&", "l", "t", ";">>, <<"<">>)
        e2 == Replace(e1, <<"&", "g", "t", ";">>, <<">">>)
        e3 == Replace(e2, <<"&", "q", "u", "o", "t", ";">>, <<DQUOTE>>)
    IN  Replace(e3, <<"&", "a", "m", "p", ";">>, <<"&">>)

NULL == <<"N", "U", "L", "L">>

Unescape(val) ==
    LET v1 == Replace(val, <<BSLASH, QUOTE>>, <<QUOTE>>)
        v2 == Replace(v1, <<BSLASH, DQUOTE>>, <<DQUOTE>>)
        v3 == Replace(v2, <<BSLASH, "n">>, <<LF>>)
        v4 == Replace(v3, <<BSLASH, "r">>, <<CR>>)
    IN  Replace(v4, <<BSLASH, BSLASH>>, <<BSLASH>>)

clean_val(val) ==
    IF val = NULL \/ val = <<>> THEN None
    ELSE IF Contains(val, <<".">>) /\ IsFloatLiteral(val) THEN FloatVal(val)
    ELSE IF ~Contains(val, <<".">>) /\ IsIntLiteral(val) THEN IntVal(ParseInt(val))
    ELSE Text(HtmlUnescape(Unescape(val)))

(***************************************************************************)
(* strip_html and slugify (migrate_old_db.py:156-196; routes_admin.py      *)
(* 42-61 defines the same slugify for the admin handlers)                  *)
(***************************************************************************)
\* re.sub(r"<[^>]+>", " ", text): a "<", one or more characters that are not
\* ">", and the first ">" that follows
RECURSIVE SubTags(_)
SubTags(t) ==
    IF t = <<>> THEN <<>>
    ELSE LET closes == {x \in 2..Len(t) : t[x] = ">"}
             q == IF closes = {} THEN 0
                  ELSE CHOOSE x \in closes : \A y \in closes : x <= y
         IN  IF Head(t) = "<" /\ q >= 3
             THEN <<SP>> \o SubTags(SubSeq(t, q + 1, Len(t)))
             ELSE <<Head(t)>> \o SubTags(Tail(t))

\* re.sub(r"\s+", " ", text)
RECURSIVE SubSpaces(_)
SubSpaces(t) ==
    IF t = <<>> THEN <<>>
    ELSE IF Head(t) \in Whitespace
         THEN <<SP>> \o SubSpaces(LStripSet(t, Whitespace))
         ELSE <<Head(t)>> \o SubSpaces(Tail(t))

\* strip_html of a str (the caller handles None and numbers)
strip_html(t) == IF t = <<>> THEN t ELSE Strip(SubSpaces(SubTags(t)))

Translit(c) ==
    CASE c = "c_a" -> <<"a">>
      [] c = "c_b" -> <<"b">>
      [] c = "c_v" -> <<"v">>
      [] c = "c_g" -> <<"g">>
      [] c = "c_d" -> <<"d">>
      [] c = "c_e" -> <<"e">>
      [] c = "c_yo" -> <<"y", "o">>
      [] c = "c_zh" -> <<"z", "h">>
      [] c = "c_z" -> <<"z">>
      [] c = "c_i" -> <<"i">>
      [] c = "c_j" -> <<"y">>
      [] c = "c_k" -> <<"k">>
      [] c = "c_l" -> <<"l">>
      [] c = "c_m" -> <<"m">>
      [] c = "c_n" -> <<"n">>
      [] c = "c_o" -> <<"o">>
      [] c = "c_p" -> <<"p">>
      [] c = "c_r" -> <<"r">>
      [] c = "c_s" -> <<"s">>
      [] c = "c_t" -> <<"t">>
      [] c = "c_u" -> <<"u">>
      [] c = "c_f" -> <<"f">>
      [] c = "c_kh" -> <<"k", "h">>
      [] c = "c_ts" -> <<"t", "s">>
      [] c = "c_ch" -> <<"c", "h">>
      [] c = "c_sh" -> <<"s", "h">>
      [] c = "c_shch" -> <<"s", "h", "c", "h">>
      [] c = "c_hard" -> <<>>
      [] c = "c_y" -> <<"y">>
      [] c = "c_soft" -> <<>>
      [] c = "c_eh" -> <<"e">>
      [] c = "c_yu" -> <<"y", "u">>
      [] c = "c_ya" -> <<"y", "a">>

RECURSIVE SlugChars(_)
SlugChars(t) ==
    IF t = <<>> THEN <<>>
    ELSE LET ch == Head(t)
             out == IF ch \in CyrLower THEN Translit(ch)
                    ELSE IF IsAlnum(ch) THEN <<ch>>
                    ELSE IF ch \in {SP, "-", "_"} THEN <<"-">>
                    ELSE <<>>
         IN  out \o SlugChars(Tail(t))

\* re.sub(r"-+", "-", text)
RECURSIVE SubDashes(_)
SubDashes(t) ==
    IF t = <<>> THEN <<>>
    ELSE IF Head(t) = "-"
         THEN <<"-">> \o SubDashes(LStripSet(t, {"-"}))
         ELSE <<Head(t)>> \o SubDashes(Tail(t))

slugify(t) ==
    LET slug == StripSet(SubDashes(SlugChars(Strip(Lower(t)))), {"-"})
    IN  IF slug # <<>> THEN slug ELSE <<"j", "o", "u", "r", "n", "a", "l">>

(***************************************************************************)
(* Python values as the importer uses them                                 *)
(***************************************************************************)
\* the digits of a float literal after the point are all zero
ZeroFraction(s) ==
    LET u == Unsigned(s)
        dot == CHOOSE x \in 1..Len(u) : u[x] = "."
    IN  \A x \in (dot + 1)..Len(u) : u[x] = "0"

IntegerPart(s) ==
    LET u == Unsigned(s)
        dot == CHOOSE x \in 1..Len(u) : u[x] = "."
        n == DigitsToInt(SubSeq(u, 1, dot - 1))
    IN  IF s[1] = "-" THEN 0 - n ELSE n

\* bool(value): None, 0, 0.0 and "" are false
Truthy(v) ==
    CASE v.k = "none" -> FALSE
      [] v.k = "int" -> v.n # 0
      [] v.k = "float" -> ~(ZeroFraction(v.s) /\ IntegerPart(v.s) = 0)
      [] v.k = "text" -> v.s # <<>>

\* a or b
Or(a, b) == IF Truthy(a) THEN a ELSE b

\* dict keys compare by value: 1 == 1.0
Key(v) ==
    IF v.k = "float" /\ ZeroFraction(v.s) THEN IntVal(IntegerPart(v.s)) ELSE v

\* a dict is the set of its (key, value) items
Put(m, k, v) == {p \in m : p[1] # Key(k)} \cup {<<Key(k), v>>}

\* dict.get(k): None when the key is missing
Get(m, k) ==
    IF \E p \in m : p[1] = Key(k)
    THEN (CHOOSE p \in m : p[1] = Key(k))[2]
    ELSE None

Keys(m) == {p[1] : p \in m}

DigitChar(d) == SubSeq(<<"0", "1", "2", "3", "4", "5", "6", "7", "8", "9">>, d + 1, d + 1)

RECURSIVE NatToStr(_)
NatToStr(n) == IF n < 10 THEN DigitChar(n) ELSE NatToStr(n \div 10) \o DigitChar(n % 10)

\* str(n) of an int
IntToStr(n) == IF n < 0 THEN <<"-">> \o NatToStr(0 - n) ELSE NatToStr(n)

\* str(value), as an f-string or str() writes it
PyStr(v) ==
    CASE v.k = "none" -> <<"N", "o", "n", "e">>
      [] v.k = "int" -> IntToStr(v.n)
      [] v.k = "float" ->
            (IF v.s[1] = "-" THEN <<"-">> ELSE <<>>)
                \o NatToStr(IF IntegerPart(v.s) < 0 THEN 0 - IntegerPart(v.s)
                            ELSE IntegerPart(v.s))
                \o <<".">>
                \o (LET u == Unsigned(v.s)
                        dot == CHOOSE x \in 1..Len(u) : u[x] = "."
                        frac == RStripSet(SubSeq(u, dot + 1, Len(u)), {"0"})
                    IN  IF frac = <<>> THEN <<"0">> ELSE frac)
      [] v.k = "text" -> v.s

\* str.split(","): the pieces between the commas
RECURSIVE SplitOn(_, _)
SplitOn(s, sep) ==
    LET stops == {x \in 1..Len(s) : s[x] = sep}
        e == IF stops = {} THEN Len(s) + 1
             ELSE CHOOSE x \in stops : \A y \in stops : x <= y
    IN  IF stops = {} THEN <<s>>
        ELSE <<SubSeq(s, 1, e - 1)>> \o SplitOn(SubSeq(s, e + 1, Len(s)), sep)

(***************************************************************************)
(* How a dump writes a value: a single-quoted literal with the quote        *)
(* backslash-escaped or doubled and the backslash doubled.                 *)
(***************************************************************************)
EncChar(c) ==
    IF c = QUOTE THEN {<<BSLASH, QUOTE>>, <<QUOTE, QUOTE>>}
    ELSE IF c = BSLASH THEN {<<BSLASH, BSLASH>>}
    ELSE {<<c>>}

RECURSIVE EncText(_)
EncText(t) ==
    IF t = <<>> THEN {<<>>}
    ELSE {e \o r : e \in EncChar(Head(t)), r \in EncText(Tail(t))}

\* a field as written: quoted text, or a bare token
Field(q, t) == [quoted |-> q, text |-> t]

EncField(f) ==
    IF f.quoted THEN {<<QUOTE>> \o e \o <<QUOTE>> : e \in EncText(f.text)}
    ELSE {f.text}

RECURSIVE EncFields(_)
EncFields(fs) ==
    IF Len(fs) = 1 THEN EncField(fs[1])
    ELSE {e \o <<",">> \o r : e \in EncField(fs[1]), r \in EncFields(Tail(fs))}

EncTuple(fs) == {<<"(">> \o e \o <<")">> : e \in EncFields(fs)}

RECURSIVE EncTuples(_)
EncTuples(ts) ==
    IF Len(ts) = 1 THEN EncTuple(ts[1])
    ELSE {e \o <<",">> \o r : e \in EncTuple(ts[1]), r \in EncTuples(Tail(ts))}

TextAlphabet == {QUOTE, BSLASH, ",", "(", ")", "n", "r", "a"}
RawAlphabet == {QUOTE, BSLASH, ",", "(", ")", "a"}

\* one tuple holding one quoted text
TextInputs == {<< <<Field(TRUE, t)>> >> : t \in Str(TextAlphabet, MaxTextLen)}

SmallFields ==
    {Field(FALSE, <<"a">>), Field(FALSE, NULL)}
        \cup {Field(TRUE, t) : t \in Str({QUOTE, BSLASH, ",", "(", ")"}, 1)}

SmallTuples == UNION {[1..k -> SmallFields] : k \in 1..MaxTupleFields}

TupleInputs == UNION {[1..k -> SmallTuples] : k \in 1..MaxTuples}

(***************************************************************************)
(* parse_values (migrate_old_db.py:47-134), one loop iteration per step    *)
(***************************************************************************)
Line(hv, tail) == [has_values |-> hv, tail |-> tail]

ParseInit ==
    /\ p_pc = "start"
    /\ \/ \E ts \in TextInputs \cup TupleInputs :
            /\ src_rows = ts
            /\ \E e \in EncTuples(ts), end \in {<<>>, <<";">>, <<";", LF>>} :
                   insert_line = Line(TRUE, e \o end)
       \/ /\ src_rows = <<>>
          /\ \E raw \in Str(RawAlphabet, MaxRawLen), hv \in BOOLEAN :
                 insert_line = Line(hv, raw)
    /\ data = <<>>
    /\ i = 0
    /\ rows = <<>>
    /\ current_row = <<>>
    /\ current_val = <<>>
    /\ in_string = FALSE
    /\ escape_next = FALSE
    /\ paren_depth = 0

\* lines 52-66: find VALUES, cut the trailing semicolon, set up the scanner
ParseStart ==
    /\ p_pc = "start"
    /\ IF insert_line.has_values
       THEN /\ data' = RStripSet(RStripSet(insert_line.tail, Whitespace), {";"})
            /\ p_pc' = "scan"
       ELSE /\ data' = <<>>
            /\ p_pc' = "done"
    /\ UNCHANGED <<insert_line, src_rows, i, rows, current_row, current_val,
                   in_string, escape_next, paren_depth>>
    /\ UNCHANGED <<nameVars, mainVars, callVars, backupVars, userVars>>

\* line 77: a backslash inside a string escapes the next character
EscapeStarts(ch) == ch = BSLASH /\ in_string

\* the in-string test forgotten: quoted characters are scanned as syntax
QuotedCharNever == FALSE

\* line 97: any other character inside a string belongs to the value
QuotedChar == in_string

\* the depth test forgotten: every ")" outside a string appends a tuple
ClosesAlways(depth) == TRUE

\* line 107: a ")" closes the tuple when it brings the depth back to 0
Closes(depth) == depth = 0

\* lines 68-132: one iteration of the while loop
ParseChar ==
    /\ p_pc = "scan"
    /\ i < Len(data)
    /\ LET ch == data[i + 1] IN
       IF escape_next THEN
            /\ current_val' = Append(current_val, ch)
            /\ escape_next' = FALSE
            /\ i' = i + 1
            /\ UNCHANGED <<rows, current_row, in_string, paren_depth>>
       ELSE IF EscapeStarts(ch) THEN
            /\ escape_next' = TRUE
            /\ current_val' = Append(current_val, ch)
            /\ i' = i + 1
            /\ UNCHANGED <<rows, current_row, in_string, paren_depth>>
       ELSE IF ch = QUOTE /\ ~in_string THEN
            /\ in_string' = TRUE
            /\ i' = i + 1
            /\ UNCHANGED <<rows, current_row, current_val, escape_next, paren_depth>>
       ELSE IF ch = QUOTE /\ in_string THEN
            IF i + 1 < Len(data) /\ data[i + 2] = QUOTE
            THEN /\ current_val' = Append(current_val, QUOTE)
                 /\ i' = i + 2
                 /\ UNCHANGED <<rows, current_row, in_string, escape_next, paren_depth>>
            ELSE /\ in_string' = FALSE
                 /\ i' = i + 1
                 /\ UNCHANGED <<rows, current_row, current_val, escape_next, paren_depth>>
       ELSE IF QuotedChar THEN
            /\ current_val' = Append(current_val, ch)
            /\ i' = i + 1
            /\ UNCHANGED <<rows, current_row, in_string, escape_next, paren_depth>>
       ELSE IF ch = "(" THEN
            /\ paren_depth' = paren_depth + 1
            /\ current_val' = IF paren_depth + 1 = 1 THEN <<>> ELSE current_val
            /\ i' = i + 1
            /\ UNCHANGED <<rows, current_row, in_string, escape_next>>
       ELSE IF ch = ")" THEN
            /\ paren_depth' = paren_depth - 1
            /\ IF Closes(paren_depth - 1)
               THEN /\ rows' = Append(rows, Append(current_row, Strip(current_val)))
                    /\ current_row' = <<>>
                    /\ current_val' = <<>>
               ELSE UNCHANGED <<rows, current_row, current_val>>
            /\ i' = i + 1
            /\ UNCHANGED <<in_string, escape_next>>
       ELSE IF ch = "," /\ paren_depth = 1 THEN
            /\ current_row' = Append(current_row, Strip(current_val))
            /\ current_val' = <<>>
            /\ i' = i + 1
            /\ UNCHANGED <<rows, in_string, escape_next, paren_depth>>
       ELSE IF ch = "," /\ paren_depth = 0 THEN
            /\ i' = i + 1
            /\ UNCHANGED <<rows, current_row, current_val, in_string, escape_next,
                           paren_depth>>
       ELSE
            /\ current_val' = Append(current_val, ch)
            /\ i' = i + 1
            /\ UNCHANGED <<rows, current_row, in_string, escape_next, paren_depth>>
    /\ UNCHANGED <<p_pc, insert_line, src_rows, data>>
    /\ UNCHANGED <<nameVars, mainVars, callVars, backupVars, userVars>>

\* line 134: the loop condition fails, rows is returned
ParseReturn ==
    /\ p_pc = "scan"
    /\ i >= Len(data)
    /\ p_pc' = "done"
    /\ UNCHANGED <<insert_line, src_rows, data, i, rows, current_row, current_val,
                   in_string, escape_next, paren_depth>>
    /\ UNCHANGED <<nameVars, mainVars, callVars, backupVars, userVars>>

ParseNext == ParseStart \/ ParseChar \/ ParseReturn

(***************************************************************************)
(* The name heuristics applied to bounded inputs                           *)
(***************************************************************************)
Repeat(c, n) == [x \in 1..n |-> c]

\* building blocks of an "authors" entry: capitalized words, initials, noise
NamePieces ==
    {<<"C_I", "c_v">>, <<"C_I", ".">>, <<"S", "m">>, <<"J", ".">>, <<SP>>,
     <<"C_O", "c_t", "c_d", "c_e", "c_l">>, <<"e", "m", "a", "i", "l">>,
     <<"a", "b">>, <<"1">>, <<"S", "m", SP, "S", "m">>,
     <<"X">> \o Repeat("x", 21), <<"X">> \o Repeat("x", 35)}

RECURSIVE Concat(_)
Concat(ps) == IF ps = <<>> THEN <<>> ELSE Head(ps) \o Concat(Tail(ps))

NameTexts == {Concat(ps) : ps \in Str(NamePieces, MaxPieces)}

CleanAlphabet == {"a", SP, "1", "-", ENDASH, "SUP2"}

CleanTexts == Str(CleanAlphabet, MaxCleanLen)

\* what an ArticleAuthor.full_name holds after an import: names with and
\* without an index marker, and affiliation noise
AuthorNames ==
    {<<"C_I", "c_v", SP, "C_I", ".", "1">>,
     <<"S", "m", SP, "J", ".">>,
     <<"S", "m", SP, "S", "m", "SUP2">>,
     <<"C_O", "c_t", "c_d", "c_e", "c_l", SP, "C_I", ".">>,
     <<"a", "b", SP, "a", "b">>}

\* one Article's authors: at most one row per order value
AuthorSets ==
    UNION {{{Author(o, f[o]) : o \in D} : f \in [D -> AuthorNames]} :
              D \in SUBSET (0..(MaxAuthors - 1))}

NamesOff ==
    /\ n_pc = "off"
    /\ text = <<>>
    /\ verdict = <<>>
    /\ cleaned = <<>>
    /\ recleaned = <<>>
    /\ authors = {}
    /\ shown = <<>>

NamesInit ==
    /\ \/ /\ n_pc = "text"
          /\ text \in NameTexts \cup CleanTexts
          /\ authors = {}
       \/ /\ n_pc = "article"
          /\ text = <<>>
          /\ authors \in AuthorSets
    /\ verdict = <<>>
    /\ cleaned = <<>>
    /\ recleaned = <<>>
    /\ shown = <<>>

\* Article._looks_like_name(text)
LooksLikeName ==
    /\ n_pc = "text"
    /\ verdict = <<>>
    /\ verdict' = <<looks_like_name(text)>>
    /\ UNCHANGED <<n_pc, text, cleaned, recleaned, authors, shown>>
    /\ UNCHANGED <<parseVars, mainVars, callVars, backupVars, userVars>>

\* Article._clean_name(text)
CleanName ==
    /\ n_pc = "text"
    /\ cleaned = <<>>
    /\ cleaned' = <<clean_name(text)>>
    /\ UNCHANGED <<n_pc, text, verdict, recleaned, authors, shown>>
    /\ UNCHANGED <<parseVars, mainVars, callVars, backupVars, userVars>>

\* Article._clean_name applied to its own result
CleanNameAgain ==
    /\ n_pc = "text"
    /\ cleaned # <<>>
    /\ recleaned = <<>>
    /\ recleaned' = <<clean_name(cleaned[1])>>
    /\ UNCHANGED <<n_pc, text, verdict, cleaned, authors, shown>>
    /\ UNCHANGED <<parseVars, mainVars, callVars, backupVars, userVars>>

\* a template reads article.authors_str
AuthorsStr ==
    /\ n_pc = "article"
    /\ shown = <<>>
    /\ shown' = <<authors_str(authors)>>
    /\ UNCHANGED <<n_pc, text, verdict, cleaned, recleaned, authors>>
    /\ UNCHANGED <<parseVars, mainVars, callVars, backupVars, userVars>>

NamesNext == LooksLikeName \/ CleanName \/ CleanNameAgain \/ AuthorsStr

(***************************************************************************)
(* The normalized store (models.py) as SQLite keeps it                     *)
(***************************************************************************)
Journal(id, name, slug) == [id |-> id, name |-> name, slug |-> slug]
Issue(id, journal_id, number) == [id |-> id, journal_id |-> journal_id, number |-> number]
Article(id, issue_id, title) == [id |-> id, issue_id |-> issue_id, title |-> title]
ArticleAuthor(id, article_id, full_name, order) ==
    [id |-> id, article_id |-> article_id, full_name |-> full_name, order |-> order]
User(id, username, role) == [id |-> id, username |-> username, role |-> role]

EmptyStore ==
    [journals |-> {}, issues |-> {}, articles |-> {}, authors |-> {}, users |-> {}]

\* an INTEGER PRIMARY KEY column without AUTOINCREMENT: one more than the
\* largest id in the table
NextId(tbl) ==
    IF tbl = {} THEN 1
    ELSE (CHOOSE x \in {r.id : r \in tbl} : \A r \in tbl : r.id <= x) + 1

\* Journal.slug is unique=True: the flush or commit raises IntegrityError
SlugTaken(tbl, slug) == \E j \in tbl : j.slug = slug

(***************************************************************************)
(* The legacy dump: rows as parse_values returns them                      *)
(***************************************************************************)
\* a row of n fields, NULL where no value is given (positions counted from 0)
LegacyRow(n, given) ==
    [x \in 1..n |->
        IF \E p \in given : p[1] = x - 1
        THEN (CHOOSE p \in given : p[1] = x - 1)[2]
        ELSE NULL]

\* row[k]
At(row, k) == row[k + 1]

JournalFields == 21
NomeraFields == 9
RazdelFields == 7
ArticleFields == 25

JournalRow(journ_id, journ_name, link) ==
    LegacyRow(JournalFields,
              {<<0, journ_id>>, <<3, journ_name>>, <<4, link>>, <<20, <<"1">>>>})

NomeraRow(num_id, jr_num, num_num) ==
    LegacyRow(NomeraFields,
              {<<0, num_id>>, <<1, jr_num>>, <<2, <<"2", "0", "2", "0">>>>,
               <<3, num_num>>, <<5, <<"1">>>>})

RazdelRow(razd_id, number) ==
    LegacyRow(RazdelFields, {<<0, razd_id>>, <<1, number>>})

ArticleRow(art_id, razd_id, authors_field, art_name) ==
    LegacyRow(ArticleFields,
              {<<0, art_id>>, <<1, razd_id>>, <<3, authors_field>>, <<4, art_name>>})

\* the dump file as a run finds it: readable, with its four tables
Dump(j, n, r, a) ==
    [readable |-> TRUE,
     journals |-> j, nomera |-> n, razdel_numbers |-> r, articles |-> a]

NoDump == Dump(<<>>, <<>>, <<>>, <<>>)

\* no file at SQL_FILE, or one that cannot be opened
Unreadable == [NoDump EXCEPT !.readable = FALSE]

journals_raw == dump.journals
nomera_raw == dump.nomera
razdel_raw == dump.razdel_numbers
articles_raw == dump.articles

\* the legacy tables the model imports
JA == JournalRow(<<"1">>, <<"A">>, <<"a">>)
JB == JournalRow(<<"2">>, <<"B">>, <<"B", SP, "b">>)
JA2 == JournalRow(<<"2">>, <<"B">>, <<"a">>)
JN1 == JournalRow(<<"1">>, <<"A">>, NULL)
JN2 == JournalRow(<<"2">>, <<"<", "i", ">", "A">>, <<>>)

\* a name that is all digits
JX == JournalRow(<<"3">>, <<"7">>, NULL)

JournalTables == {<<>>, <<JA>>, <<JA, JB>>, <<JA, JA2>>, <<JN1, JN2>>, <<JA, JX>>}

N1 == NomeraRow(<<"1">>, <<"1">>, <<"1", "-", "2">>)
N2 == NomeraRow(<<"2">>, <<"2">>, NULL)
N9 == NomeraRow(<<"2">>, <<"9">>, <<"2">>)

NomeraTables == {<<>>, <<N1>>, <<N1, N2>>, <<N1, N9>>}

R1 == RazdelRow(<<"1">>, <<"1">>)
R2 == RazdelRow(<<"2">>, <<"2">>)
R1b == RazdelRow(<<"1">>, <<"2">>)
R3 == RazdelRow(<<"3">>, NULL)

RazdelTables == {<<>>, <<R1>>, <<R1, R2>>, <<R1, R1b>>, <<R3, R1>>}

\* a mapped section with a title and two authors
AM == ArticleRow(<<"1">>, <<"1">>, <<"A", ",", SP, "B">>, <<"T">>)
\* a second mapped section; a blank author piece and a tag in the title
AM2 == ArticleRow(<<"2">>, <<"2">>, <<SP, ",", "A">>, <<"<", "b", ">", "T">>)
\* a section no row of razdel_numbers names
AU == ArticleRow(<<"3">>, <<"5">>, <<"A">>, <<"T">>)
\* an unmapped section and no title
AT == ArticleRow(<<"4">>, <<"5">>, <<"A">>, NULL)
\* no section at all
AN == ArticleRow(<<"5">>, NULL, NULL, <<"T">>)
\* the section whose razdel_numbers row names no issue
A3 == ArticleRow(<<"6">>, <<"3">>, <<"A">>, <<"T">>)

\* a title that is all digits
AX == ArticleRow(<<"7">>, <<"1">>, <<"A">>, <<"7">>)
\* a row of two fields
AS == <<<<"8">>, <<"1">>>>

ArticleTables ==
    {<<>>, <<AM>>, <<AM, AU>>, <<AU, AM>>, <<AT, AM>>, <<AN, AM2>>,
     <<AM, AM2>>, <<A3, AM>>, <<AM, AX>>, <<AM, AS>>}

\* the dumps: around one full dump, each table varied with the others fixed,
\* and the sections varied together with the articles that name them
Dumps ==
    {Dump(j, <<N1, N2>>, <<R1, R2>>, <<AM, AM2>>) : j \in JournalTables}
        \cup {Dump(<<JA, JB>>, n, <<R1, R2>>, <<AM, AM2>>) : n \in NomeraTables}
        \cup {Dump(<<JA, JB>>, <<N1, N2>>, <<R1, R2>>, a) : a \in ArticleTables}
        \cup {Dump(<<JA, JB>>, <<N1, N2>>, r, a) :
                  r \in RazdelTables,
                  a \in {<<AM, AM2>>, <<AM, AU>>, <<A3, AM>>}}

(***************************************************************************)
(* run_migration (migrate_old_db.py:213-472)                               *)
(***************************************************************************)
\* lines 241-246: a later row of a section overwrites an earlier one
RECURSIVE BuildRazdToNomer(_, _)
BuildRazdToNomer(rws, m) ==
    IF rws = <<>> THEN m
    ELSE LET razd_id == clean_val(At(Head(rws), 0))
             nomer_id == clean_val(At(Head(rws), 1))
         IN  BuildRazdToNomer(Tail(rws),
                 IF razd_id # None /\ nomer_id # None
                 THEN Put(m, razd_id, nomer_id)
                 ELSE m)

\* open() finds no file
ReadNeverRaises(d) == FALSE

\* lines 219-235: open(SQL_FILE) in detect_encoding raises OSError, which
\* nothing catches
ReadRaises(d) == ~d.readable

\* lines 242-263: row[1] of a section row and row[5] of an issue row are
\* read without a length test (IndexError)
BeginRaises(d) ==
    \/ \E x \in DOMAIN d.razdel_numbers : Len(d.razdel_numbers[x]) < 2
    \/ \E x \in DOMAIN d.nomera : Len(d.nomera[x]) < 6

\* the clear without its first statement: the author rows stay
ClearedButAuthors(store) ==
    [store EXCEPT !.articles = {}, !.issues = {}, !.journals = {}]

\* lines 277-280
Cleared(store) ==
    [store EXCEPT !.authors = {}, !.articles = {}, !.issues = {}, !.journals = {}]

\* lines 460-464: what the summary prints, with the dump the run read
Outcome(ok, d, store, skip) ==
    [ok |-> ok, dump |-> d,
     journals |-> Cardinality(store.journals),
     issues |-> Cardinality(store.issues),
     articles |-> Cardinality(store.articles),
     authors |-> Cardinality(store.authors),
     skipped |-> skip]

\* the latest two outcomes
Logged(log, e) == IF Len(log) = 2 THEN <<log[2], e>> ELSE Append(log, e)

\* run_migration returns or dies with an exception: its locals are gone and
\* what the session had not committed is lost
MigReturn(ok, d, committed, log, skip) ==
    /\ mig_pc' = "idle"
    /\ dump' = NoDump
    /\ row_i' = 0
    /\ razd_to_nomer' = {}
    /\ old_to_new_journal' = {}
    /\ old_to_new_issue' = {}
    /\ journal_order' = 0
    /\ issue_count' = 0
    /\ article_count' = 0
    /\ author_count' = 0
    /\ skipped' = 0
    /\ db' = committed
    /\ sess' = committed
    /\ run_log' = Logged(log, Outcome(ok, d, committed, skip))

\* the session is the only writer while a run or a handler is in progress
Quiet == mig_pc = "idle"

\* the other locals of run_migration keep their values
KeepLocals(changed) ==
    /\ IF "dump" \in changed THEN TRUE ELSE UNCHANGED dump
    /\ IF "razd_to_nomer" \in changed THEN TRUE ELSE UNCHANGED razd_to_nomer
    /\ IF "old_to_new_journal" \in changed THEN TRUE ELSE UNCHANGED old_to_new_journal
    /\ IF "old_to_new_issue" \in changed THEN TRUE ELSE UNCHANGED old_to_new_issue
    /\ IF "journal_order" \in changed THEN TRUE ELSE UNCHANGED journal_order
    /\ IF "issue_count" \in changed THEN TRUE ELSE UNCHANGED issue_count
    /\ IF "article_count" \in changed THEN TRUE ELSE UNCHANGED article_count
    /\ IF "author_count" \in changed THEN TRUE ELSE UNCHANGED author_count
    /\ IF "skipped" \in changed THEN TRUE ELSE UNCHANGED skipped

\* lines 219-291: read the dump, build the section map, clear the tables
MigBegin ==
    /\ mig_pc = "idle"
    /\ \E d \in Dumps \cup {Unreadable} :
        LET log == IF run_log # <<>> /\ run_log[1].dump # d THEN <<>> ELSE run_log
        IN  IF ReadRaises(d) \/ BeginRaises(d)
            THEN MigReturn(FALSE, d, db, <<>>, 0)
            ELSE /\ dump' = d
                 /\ razd_to_nomer' = BuildRazdToNomer(d.razdel_numbers, {})
                 /\ IF Cardinality(db.journals) > 0
                    THEN db' = Cleared(db) /\ sess' = Cleared(db)
                    ELSE UNCHANGED <<db, sess>>
                 /\ old_to_new_journal' = {}
                 /\ journal_order' = 0
                 /\ mig_pc' = "journals"
                 /\ row_i' = 1
                 /\ run_log' = log
                 /\ KeepLocals({"dump", "razd_to_nomer", "old_to_new_journal",
                                "journal_order"})
    /\ UNCHANGED <<parseVars, nameVars, callVars, backupVars, userVars>>

\* line 294
JournalName(row) ==
    Or(Or(clean_val(At(row, 3)), clean_val(At(row, 1))),
       Text(<<"J", "o", "u", "r", "n", "a", "l", SP>> \o PyStr(clean_val(At(row, 0)))))

\* lines 296-299, for a name that is a str
JournalSlug(row) ==
    LET name == strip_html(JournalName(row).s)
        link == clean_val(At(row, 4))
        slug == IF ~Truthy(link) THEN slugify(name) ELSE link.s
    IN  Replace(Strip(Lower(slug)), <<SP>>, <<"-">>)

\* a str method or re.sub meets a number (TypeError, AttributeError)
NotStr(v) == Truthy(v) /\ v.k # "text"

\* lines 293-315: what a journal row can raise before the flush
JournalRowRaises(row) ==
    \/ Len(row) < 15
    \/ NotStr(JournalName(row))
    \/ NotStr(clean_val(At(row, 4)))
    \/ NotStr(clean_val(At(row, 6)))
    \/ NotStr(clean_val(At(row, 7)))

\* a loop left while rows of its table remain
LoopOverAnytime(tbl) == TRUE

\* for row in tbl: the loop is left after the last row of the table
LoopOver(tbl) == row_i > Len(tbl)

\* lines 292-323: one journal row
MigJournal ==
    /\ mig_pc = "journals"
    /\ row_i <= Len(journals_raw)
    /\ LET row == journals_raw[row_i]
           new_id == NextId(sess.journals)
       IN  IF JournalRowRaises(row) \/ SlugTaken(sess.journals, JournalSlug(row))
           THEN MigReturn(FALSE, dump, db, run_log, 0)
           ELSE /\ sess' = [sess EXCEPT !.journals =
                       @ \cup {Journal(new_id, strip_html(JournalName(row).s),
                                       JournalSlug(row))}]
                /\ old_to_new_journal' =
                       Put(old_to_new_journal, clean_val(At(row, 0)), IntVal(new_id))
                /\ journal_order' = journal_order + 1
                /\ row_i' = row_i + 1
                /\ UNCHANGED <<db, mig_pc, run_log>>
                /\ KeepLocals({"old_to_new_journal", "journal_order"})
    /\ UNCHANGED <<parseVars, nameVars, callVars, backupVars, userVars>>

\* lines 326-327: the journals are done, the issues begin
MigJournalsDone ==
    /\ mig_pc = "journals"
    /\ LoopOver(journals_raw)
    /\ mig_pc' = "issues"
    /\ row_i' = 1
    /\ old_to_new_issue' = {}
    /\ issue_count' = 0
    /\ UNCHANGED <<db, sess, run_log>>
    /\ KeepLocals({"old_to_new_issue", "issue_count"})
    /\ UNCHANGED <<parseVars, nameVars, callVars, backupVars, userVars>>

\* the longest prefix of decimal digits
RECURSIVE LeadDigits(_)
LeadDigits(s) ==
    IF s # <<>> /\ Head(s) \in Digits THEN <<Head(s)>> \o LeadDigits(Tail(s)) ELSE <<>>

\* lines 340-344
IssueNumber(num_num) ==
    LET number_str == IF Truthy(num_num) THEN PyStr(num_num) ELSE <<"1">>
    IN  IF LeadDigits(number_str) # <<>> THEN DigitsToInt(LeadDigits(number_str)) ELSE 1

\* lines 328-355: one issue row
MigIssue ==
    /\ mig_pc = "issues"
    /\ row_i <= Len(nomera_raw)
    /\ LET row == nomera_raw[row_i]
           new_journal_id == Get(old_to_new_journal, clean_val(At(row, 1)))
           new_id == NextId(sess.issues)
       IN  IF Len(row) < 6
           THEN MigReturn(FALSE, dump, db, run_log, 0)
           ELSE /\ IF ~Truthy(new_journal_id)
                   THEN UNCHANGED <<sess, old_to_new_issue, issue_count>>
                   ELSE /\ sess' = [sess EXCEPT !.issues =
                               @ \cup {Issue(new_id, new_journal_id.n,
                                             IssueNumber(clean_val(At(row, 3))))}]
                        /\ old_to_new_issue' =
                               Put(old_to_new_issue, clean_val(At(row, 0)), IntVal(new_id))
                        /\ issue_count' = issue_count + 1
                /\ row_i' = row_i + 1
                /\ UNCHANGED <<db, mig_pc, run_log>>
                /\ KeepLocals({"old_to_new_issue", "issue_count"})
    /\ UNCHANGED <<parseVars, nameVars, callVars, backupVars, userVars>>

\* lines 357-368: the issues are done, the articles begin
MigIssuesDone ==
    /\ mig_pc = "issues"
    /\ LoopOver(nomera_raw)
    /\ mig_pc' = "articles"
    /\ row_i' = 1
    /\ article_count' = 0
    /\ author_count' = 0
    /\ skipped' = 0
    /\ UNCHANGED <<db, sess, run_log>>
    /\ KeepLocals({"article_count", "author_count", "skipped"})
    /\ UNCHANGED <<parseVars, nameVars, callVars, backupVars, userVars>>

\* parse_pages (lines 199-210): a pair of int or None
parse_pages(pages_str) ==
    IF ~Truthy(pages_str) THEN <<None, None>>
    ELSE LET s == Replace(Replace(Strip(PyStr(pages_str)), <<ENDASH>>, <<"-">>),
                          <<EMDASH>>, <<"-">>)
             from == LeadDigits(s)
             sep == LStripSet(SubSeq(s, Len(from) + 1, Len(s)), Whitespace)
             to == IF sep # <<>> /\ Head(sep) = "-"
                   THEN LeadDigits(LStripSet(Tail(sep), Whitespace))
                   ELSE <<>>
         IN  IF from # <<>> /\ to # <<>>
             THEN <<IntVal(DigitsToInt(from)), IntVal(DigitsToInt(to))>>
             ELSE IF from # <<>> THEN <<IntVal(DigitsToInt(from)), None>>
             ELSE <<None, None>>

\* line 433 and 436: the non-blank pieces between the commas, stripped
AuthorsList(s) ==
    LET pieces == SplitOn(s, ",")
        stripped == [x \in DOMAIN pieces |-> Strip(pieces[x])]
    IN  SelectSeq(stripped, LAMBDA a : a # <<>>)

\* lines 438-453: the ArticleAuthor rows of one article, order = position in
\* the list of pieces
RECURSIVE AddAuthors(_, _, _, _)
AddAuthors(tbl, article_id, names, idx) ==
    IF idx >= Len(names) THEN tbl
    ELSE LET author_name == strip_html(names[idx + 1])
         IN  AddAuthors(IF author_name = <<>> THEN tbl
                        ELSE tbl \cup {ArticleAuthor(NextId(tbl), article_id,
                                                     author_name, idx)},
                        article_id, names, idx + 1)

\* optional columns: row[k] if len(row) > k else None
Optional(row, k) == IF Len(row) > k THEN clean_val(At(row, k)) ELSE None

\* lines 404-436: what an article row that is not skipped can raise
ArticleRowRaises(row) ==
    \/ NotStr(clean_val(At(row, 4)))
    \/ NotStr(Optional(row, 8))
    \/ NotStr(clean_val(At(row, 5)))
    \/ NotStr(Optional(row, 9))
    \/ NotStr(clean_val(At(row, 3)))
    \/ Truthy(clean_val(At(row, 3))) /\ NotStr(Optional(row, 7))

\* the row is passed over without being counted
SkipArticleUncounted ==
    /\ skipped' = skipped
    /\ UNCHANGED <<sess, article_count, author_count>>

\* lines 386-387, 392-393, 397-398: skipped += 1; continue
SkipArticle ==
    /\ skipped' = skipped + 1
    /\ UNCHANGED <<sess, article_count, author_count>>

\* lines 370-453: one article row
MigArticle ==
    /\ mig_pc = "articles"
    /\ row_i <= Len(articles_raw)
    /\ LET row == articles_raw[row_i]
           razd_id == clean_val(At(row, 1))
           authors_field == clean_val(At(row, 3))
           art_name == clean_val(At(row, 4))
           nomer_id == Get(razd_to_nomer, razd_id)
           new_issue_id == Get(old_to_new_issue, nomer_id)
           new_id == NextId(sess.articles)
           authors_list == IF Truthy(authors_field)
                           THEN AuthorsList(authors_field.s) ELSE <<>>
           rows_added == AddAuthors(sess.authors, new_id, authors_list, 0)
       IN  IF Len(row) < 6
           THEN MigReturn(FALSE, dump, db, run_log, skipped)
           ELSE IF ~Truthy(art_name) \/ nomer_id = None \/ new_issue_id = None
           THEN /\ SkipArticle
                /\ row_i' = row_i + 1
                /\ UNCHANGED <<db, mig_pc, run_log>>
                /\ KeepLocals({"article_count", "author_count", "skipped"})
           ELSE IF ArticleRowRaises(row)
           THEN MigReturn(FALSE, dump, db, run_log, skipped)
           ELSE /\ sess' = [sess EXCEPT
                       !.articles = @ \cup {Article(new_id, new_issue_id.n,
                                                    strip_html(art_name.s))},
                       !.authors = rows_added]
                /\ article_count' = article_count + 1
                /\ author_count' = author_count
                       + Cardinality(rows_added) - Cardinality(sess.authors)
                /\ row_i' = row_i + 1
                /\ UNCHANGED <<db, mig_pc, run_log>>
                /\ KeepLocals({"article_count", "author_count"})
    /\ UNCHANGED <<parseVars, nameVars, callVars, backupVars, userVars>>

\* the account of username 'admin' and role 'admin'
AdminUser(id) == User(id, <<"a", "d", "m", "i", "n">>, "admin")

\* a run that ends without looking at the users
EnsureAdminNever(store) == store

\* lines 467-472 (and app.py, init_data): the default account, made when the
\* table of users is empty
EnsureAdmin(store) ==
    IF Cardinality(store.users) = 0
    THEN [store EXCEPT !.users = @ \cup {AdminUser(NextId(store.users))}]
    ELSE store

\* lines 455-472: the single commit, the summary, the admin account
MigCommit ==
    /\ mig_pc = "articles"
    /\ LoopOver(articles_raw)
    /\ MigReturn(TRUE, dump, EnsureAdmin(sess), run_log, skipped)
    /\ UNCHANGED <<parseVars, nameVars, callVars, backupVars, userVars>>

(***************************************************************************)
(* The admin handlers (routes_admin.py), one request per step              *)
(***************************************************************************)
\* a field of request.form: sent with a value, or not sent
NoField == [given |-> FALSE, s |-> <<>>]
FormField(s) == [given |-> TRUE, s |-> s]

\* request.form.get(name, default)
FormGet(f, default) == IF f.given THEN f.s ELSE default

FormNames == {NoField, FormField(<<SP>>), FormField(<<"A">>)}
FormSlugs == {NoField, FormField(<<>>), FormField(<<"A", SP>>)}
FormNumbers == {1, 2}
FormTitles == {NoField, FormField(<<"T">>)}
FormAuthorLists == {<<>>, << <<SP>>, <<"B">> >>}

\* relationship(..., cascade='all, delete-orphan'): the rows deleted with
\* their parents
\* an Issue.articles relationship without the cascade
IssueCascadeNone(store, ids) == {}

JournalCascade(store, ids) == {x \in store.issues : x.journal_id \in ids}
IssueCascade(store, ids) == {x \in store.articles : x.issue_id \in ids}
ArticleCascade(store, ids) == {x \in store.authors : x.article_id \in ids}

\* db.session.delete(article)
DeleteArticles(store, arts) ==
    [store EXCEPT !.articles = @ \ arts,
                  !.authors = @ \ ArticleCascade(store, {a.id : a \in arts})]

\* db.session.delete(issue)
DeleteIssues(store, iss) ==
    [DeleteArticles(store, IssueCascade(store, {x.id : x \in iss}))
        EXCEPT !.issues = @ \ iss]

\* db.session.delete(journal)
DeleteJournals(store, js) ==
    [DeleteIssues(store, JournalCascade(store, {j.id : j \in js}))
        EXCEPT !.journals = @ \ js]

\* db.session.commit() of a handler
Commit(store) ==
    /\ store # db
    /\ db' = store
    /\ sess' = store
    /\ run_log' = <<>>
    /\ UNCHANGED <<migVars, parseVars, nameVars, callVars, backupVars, userVars>>

\* lines 64-71: the request comes from a user who is logged in, a row of the
\* table of users
admin_required == Quiet /\ db.users # {}

\* lines 234-273
admin_journal_add ==
    /\ admin_required
    /\ \E name_f \in FormNames, slug_f \in FormSlugs :
        LET name == Strip(FormGet(name_f, <<>>))
            given == Strip(FormGet(slug_f, <<>>))
            slug == IF given # <<>> THEN given ELSE slugify(name)
            unique == IF SlugTaken(db.journals, slug)
                      THEN slug \o <<"-">> \o IntToStr(Cardinality(db.journals) + 1)
                      ELSE slug
        IN  /\ name # <<>>
            /\ ~SlugTaken(db.journals, unique)
            /\ Cardinality(db.journals) < MaxJournals
            /\ NextId(db.journals) <= MaxId
            /\ Commit([db EXCEPT !.journals =
                   @ \cup {Journal(NextId(db.journals), name, unique)}])

\* lines 275-304
admin_journal_edit ==
    /\ admin_required
    /\ \E journal \in db.journals, name_f \in FormNames \ {FormField(<<SP>>)},
          slug_f \in FormSlugs :
        LET name == Strip(FormGet(name_f, journal.name))
            given == Strip(FormGet(slug_f, journal.slug))
            slug == IF given # <<>> THEN given ELSE slugify(name)
        IN  /\ ~SlugTaken(db.journals \ {journal}, slug)
            /\ Commit([db EXCEPT !.journals =
                   (@ \ {journal}) \cup {Journal(journal.id, name, slug)}])

\* lines 317-319: the answer 400 while the journal has issues
JournalDeleteRefused(store, journal) ==
    LET count == Cardinality({x \in store.issues : x.journal_id = journal.id})
    IN  count > 0

\* lines 314-324
admin_journal_delete ==
    /\ admin_required
    /\ \E journal \in db.journals :
        /\ ~JournalDeleteRefused(db, journal)
        /\ Commit(DeleteJournals(db, {journal}))

\* lines 340-366
admin_issue_add ==
    /\ admin_required
    /\ \E journal \in db.journals, number \in FormNumbers :
        /\ Cardinality(db.issues) < MaxIssues
        /\ NextId(db.issues) <= MaxId
        /\ Commit([db EXCEPT !.issues =
               @ \cup {Issue(NextId(db.issues), journal.id, number)}])

\* lines 368-394
admin_issue_edit ==
    /\ admin_required
    /\ \E issue \in db.issues, number \in FormNumbers :
        Commit([db EXCEPT !.issues =
            (@ \ {issue}) \cup {Issue(issue.id, issue.journal_id, number)}])

\* lines 396-404
admin_issue_delete ==
    /\ admin_required
    /\ \E issue \in db.issues : Commit(DeleteIssues(db, {issue}))

\* _process_authors (lines 611-633): order = position in the form's list
RECURSIVE process_authors(_, _, _, _)
process_authors(tbl, article_id, names, idx) ==
    IF idx >= Len(names) THEN tbl
    ELSE process_authors(
             IF Strip(names[idx + 1]) = <<>> THEN tbl
             ELSE tbl \cup {ArticleAuthor(NextId(tbl), article_id,
                                          Strip(names[idx + 1]), idx)},
             article_id, names, idx + 1)

\* lines 415-457
admin_article_add ==
    /\ admin_required
    /\ \E issue \in db.issues, title_f \in FormTitles \ {NoField},
          names \in FormAuthorLists :
        LET new_id == NextId(db.articles)
        IN  /\ Cardinality(db.articles) < MaxArticles
            /\ new_id <= MaxId
            /\ NextId(process_authors(db.authors, new_id, names, 0)) <= MaxAuthorId + 1
            /\ Commit([db EXCEPT
                   !.articles = @ \cup {Article(new_id, issue.id,
                                                Strip(FormGet(title_f, <<>>)))},
                   !.authors = process_authors(@, new_id, names, 0)])

\* the new author rows added to the ones the article had
AppendAuthors(tbl, article_id, names) == process_authors(tbl, article_id, names, 0)

\* lines 504-506: the article's author rows are deleted, then made anew
EditAuthors(tbl, article_id, names) ==
    process_authors(tbl \ {x \in tbl : x.article_id = article_id},
                    article_id, names, 0)

\* lines 472-512
admin_article_edit ==
    /\ admin_required
    /\ \E article \in db.articles, title_f \in FormTitles, names \in FormAuthorLists :
        /\ NextId(EditAuthors(db.authors, article.id, names)) <= MaxAuthorId + 1
        /\ Commit([db EXCEPT
               !.articles = (@ \ {article})
                   \cup {Article(article.id, article.issue_id,
                                 Strip(FormGet(title_f, article.title)))},
               !.authors = EditAuthors(@, article.id, names)])

\* lines 514-522
admin_article_delete ==
    /\ admin_required
    /\ \E article \in db.articles : Commit(DeleteArticles(db, {article}))

(***************************************************************************)
(* The importer and the admin handlers on one store                        *)
(***************************************************************************)
\* app.py, lines 103-113
init_data ==
    /\ Quiet
    /\ Commit(EnsureAdmin(db))

MainOff ==
    /\ db = EmptyStore
    /\ sess = EmptyStore
    /\ mig_pc = "off"
    /\ dump = NoDump
    /\ row_i = 0
    /\ razd_to_nomer = {}
    /\ old_to_new_journal = {}
    /\ old_to_new_issue = {}
    /\ journal_order = 0
    /\ issue_count = 0
    /\ article_count = 0
    /\ author_count = 0
    /\ skipped = 0
    /\ run_log = <<>>

\* db.create_all() on a new file: empty tables, no run in progress
MainInit ==
    /\ db = EmptyStore
    /\ sess = EmptyStore
    /\ mig_pc = "idle"
    /\ dump = NoDump
    /\ row_i = 0
    /\ razd_to_nomer = {}
    /\ old_to_new_journal = {}
    /\ old_to_new_issue = {}
    /\ journal_order = 0
    /\ issue_count = 0
    /\ article_count = 0
    /\ author_count = 0
    /\ skipped = 0
    /\ run_log = <<>>

Next ==
    \/ MigBegin
    \/ MigJournal
    \/ MigJournalsDone
    \/ MigIssue
    \/ MigIssuesDone
    \/ MigArticle
    \/ MigCommit
    \/ admin_journal_add
    \/ admin_journal_edit
    \/ admin_journal_delete
    \/ admin_issue_add
    \/ admin_issue_edit
    \/ admin_issue_delete
    \/ admin_article_add
    \/ admin_article_edit
    \/ admin_article_delete
    \/ init_data

ParseOff ==
    /\ p_pc = "off"
    /\ insert_line = Line(FALSE, <<>>)
    /\ src_rows = <<>>
    /\ data = <<>>
    /\ i = 0
    /\ rows = <<>>
    /\ current_row = <<>>
    /\ current_val = <<>>
    /\ in_string = FALSE
    /\ escape_next = FALSE
    /\ paren_depth = 0

(***************************************************************************)
(* detect_encoding and the read of extract_table_data                      *)
(* (migrate_old_db.py:25-44, 165-174). The dump file is a sequence of       *)
(* pieces of bytes: a probe word written in one encoding, ASCII text, or a  *)
(* byte 0x98, which utf-8 and cp1251 cannot decode.                         *)
(***************************************************************************)
ENCODINGS_TO_TRY == <<"utf-8", "cp1251", "cp866", "koi8-r", "latin1">>

\* test_words, by position in the list
TestWords == 1..4

WordBytes(w, enc) == [kind |-> "word", w |-> w, enc |-> enc]
AsciiBytes == [kind |-> "ascii", w |-> 0, enc |-> "ascii"]
Byte98 == [kind |-> "x98", w |-> 0, enc |-> "none"]

\* the pieces of the files: three of the probe words in the four encodings
\* that can write them
FilePieces ==
    {WordBytes(w, enc) : w \in 1..3, enc \in {"utf-8", "cp1251", "cp866", "koi8-r"}}
        \cup {AsciiBytes, Byte98}

DumpFiles == Str(FilePieces, MaxFileLen)

\* errors="strict": UnicodeDecodeError. A single-byte Cyrillic text and the
\* byte 0x98 are not valid utf-8; cp1251 leaves 0x98 undefined; cp866, koi8-r
\* and latin1 decode every byte
DecodeRaises(enc, piece) ==
    CASE enc = "utf-8" -> piece.kind = "x98"
                              \/ (piece.kind = "word" /\ piece.enc # "utf-8")
      [] enc = "cp1251" -> piece.kind = "x98"
      [] OTHER -> FALSE

\* the probe word a piece reads as under an encoding, 0 for any other text
DecodedWord(enc, piece) ==
    IF piece.kind = "word" /\ piece.enc = enc THEN piece.w ELSE 0

\* f.read(500000): the prefix of the file
Chunk(file) == SubSeq(file, 1, IF Len(file) < MaxChunk THEN Len(file) ELSE MaxChunk)

\* one probe word is enough
FoundOne(found) == found >= 1

\* line 37: found >= 2
FoundEnough(found) == found >= 2

\* lines 33-36: the number of test words in the chunk
Found(enc, chunk) ==
    Cardinality({w \in TestWords :
                    \E x \in DOMAIN chunk : DecodedWord(enc, chunk[x]) = w})

\* lines 31-44: the loop over the encodings, from the k-th one
RECURSIVE detect_from(_, _)
detect_from(file, k) ==
    IF k > Len(ENCODINGS_TO_TRY) THEN "utf-8"
    ELSE LET enc == ENCODINGS_TO_TRY[k]
             chunk == Chunk(file)
         IN  IF \E x \in DOMAIN chunk : DecodeRaises(enc, chunk[x])
             THEN detect_from(file, k + 1)
             ELSE IF FoundEnough(Found(enc, chunk)) THEN enc
             ELSE detect_from(file, k + 1)

detect_encoding(file) == detect_from(file, 1)

\* line 169: open(..., errors="replace"): a piece that cannot be decoded
\* is read as U+FFFD, the others as their text
ReadReplacing(enc, file) ==
    [x \in DOMAIN file |->
        IF DecodeRaises(enc, file[x]) THEN "U+FFFD"
        ELSE IF DecodedWord(enc, file[x]) # 0 THEN "word"
        ELSE "text"]

(***************************************************************************)
(* One call of a function on one value                                     *)
(***************************************************************************)
\* how a call ends
Returned(v) == [raised |-> FALSE, value |-> v]
Raised == [raised |-> TRUE, value |-> None]

PageAlphabet == {"0", "1", "2", "-", ENDASH, EMDASH, SP, ".", "a"}

\* the art_page fields
PageFields == Str(PageAlphabet, MaxPagesLen) \cup {NULL}

\* the texts _looks_like_name is called on
NameFields == {Concat(ps) : ps \in Str(NamePieces, 2)}

\* the authors fields of article rows: names, commas, blanks, and a piece
\* that is only a tag
AuthorsAlphabet == {"A", "B", ",", SP}
AuthorsFields ==
    Str(AuthorsAlphabet, MaxAuthorsLen)
        \cup {<<"B", ",", "<", "b", ">", ",", "A">>, <<"1">>, NULL}

\* the author_name[] lists of a form
AuthorNameLists == Str({<<"A">>, <<"B">>, <<SP>>, <<SP, "B">>, <<>>}, MaxAuthors)

\* the ArticleAuthor rows in the table before the call: of article 1, of
\* article 2
AuthorTables ==
    {{},
     {ArticleAuthor(1, 2, <<"Z">>, 0)},
     {ArticleAuthor(1, 1, <<"Z">>, 0), ArticleAuthor(2, 1, <<"Y">>, 1),
      ArticleAuthor(3, 2, <<"X">>, 0)}}

\* the art_name and art_page fields of an article row
TitleFields == Str({"T", SP, "<", "b", ">"}, MaxTextLen) \cup {NULL, <<"7">>}
RowPageFields == {NULL, <<"0">>, <<"5">>, <<"5", "-", "7">>, <<"-", "7">>, <<"a">>}

\* the title, pages_from and pages_to fields of a submitted form
TitleForms == {NoField, FormField(<<>>), FormField(<<SP>>), FormField(<<"T", SP>>)}
PageForms ==
    {NoField, FormField(<<>>), FormField(<<"0">>), FormField(<<"5">>),
     FormField(<<SP, "7">>), FormField(<<"a">>)}

\* the num_num fields of nomera rows
NumberFields == Str({"0", "5", "6", "-", ".", "a"}, MaxTextLen) \cup {NULL}

CallsOff ==
    /\ v_pc = "off"
    /\ field = <<>>
    /\ arg = None
    /\ returned = <<>>

CallsInit ==
    /\ \/ /\ v_pc = "pages"
          /\ field \in PageFields
          /\ arg \in {Text(field), clean_val(field)}
       \/ /\ v_pc = "name"
          /\ field \in NameFields
          /\ arg \in {Text(field)} \cup {clean_val(f) : f \in {NULL, <<"1">>}}
       \/ /\ v_pc = "import_authors"
          /\ field \in AuthorsFields
          /\ arg = clean_val(field)
       \/ /\ v_pc = "form_authors"
          /\ field \in AuthorNameLists
          /\ arg = None
       \/ /\ v_pc = "encoding"
          /\ field \in DumpFiles
          /\ arg = None
       \/ /\ v_pc = "issue_number"
          /\ field \in NumberFields
          /\ arg = clean_val(field)
       \/ /\ v_pc = "import_article"
          /\ field \in [art_name : TitleFields, art_page : RowPageFields]
          /\ arg = None
       \/ /\ v_pc = "form_article"
          /\ field \in [title : TitleForms, pages_from : PageForms,
                        pages_to : PageForms]
          /\ arg = None
    /\ returned = <<>>

\* parse_pages(arg)
ParsePages ==
    /\ v_pc = "pages"
    /\ returned = <<>>
    /\ returned' = <<Returned(parse_pages(arg))>>
    /\ UNCHANGED <<v_pc, field, arg>>
    /\ UNCHANGED <<parseVars, nameVars, mainVars, backupVars, userVars>>

\* Article._looks_like_name(arg): text.strip() is the first thing done
\* (models.py:118), and only a str has it
LooksLikeNameCall ==
    /\ v_pc = "name"
    /\ returned = <<>>
    /\ returned' = <<IF arg.k = "text" THEN Returned(looks_like_name(arg.s))
                     ELSE Raised>>
    /\ UNCHANGED <<v_pc, field, arg>>
    /\ UNCHANGED <<parseVars, nameVars, mainVars, backupVars, userVars>>

\* what a call on a table of author rows did
AuthorsCall(tbl, article_id, result) ==
    Returned([before |-> tbl, article_id |-> article_id, after |-> result])

\* migrate_old_db.py, lines 431-453, for the article just flushed
ImportAuthors ==
    /\ v_pc = "import_authors"
    /\ returned = <<>>
    /\ \E tbl \in AuthorTables :
        LET article_id == 3
        IN  returned' =
                <<IF ~Truthy(arg) THEN AuthorsCall(tbl, article_id, tbl)
                  ELSE IF NotStr(arg) THEN Raised
                  ELSE AuthorsCall(tbl, article_id,
                           AddAuthors(tbl, article_id, AuthorsList(arg.s), 0))>>
    /\ UNCHANGED <<v_pc, field, arg>>
    /\ UNCHANGED <<parseVars, nameVars, mainVars, backupVars, userVars>>

\* routes_admin.py: _process_authors for a new article (line 449) and for an
\* article that is edited (lines 504-506)
FormAuthors ==
    /\ v_pc = "form_authors"
    /\ returned = <<>>
    /\ \E tbl \in AuthorTables :
        \/ returned' = <<AuthorsCall(tbl, 3, process_authors(tbl, 3, field, 0))>>
        \/ returned' = <<AuthorsCall(tbl, 1, EditAuthors(tbl, 1, field))>>
    /\ UNCHANGED <<v_pc, field, arg>>
    /\ UNCHANGED <<parseVars, nameVars, mainVars, backupVars, userVars>>

\* the title and the pages of the Article row a call made
ArticleMade(title, pages_from, pages_to) ==
    Returned([stored |-> TRUE, title |-> title,
              pages_from |-> pages_from, pages_to |-> pages_to])

\* the row was passed over: no Article
NoArticleMade ==
    Returned([stored |-> FALSE, title |-> <<>>, pages_from |-> None, pages_to |-> None])

\* migrate_old_db.py, lines 385-387 and 401-425: the Article of a row whose
\* section and issue are found
ImportArticle ==
    /\ v_pc = "import_article"
    /\ returned = <<>>
    /\ LET art_name == clean_val(field.art_name)
           art_page == clean_val(field.art_page)
           pages == parse_pages(art_page)
       IN  returned' =
               <<IF ~Truthy(art_name) THEN NoArticleMade
                 ELSE IF NotStr(art_name) THEN Raised
                 ELSE ArticleMade(strip_html(art_name.s), pages[1], pages[2])>>
    /\ UNCHANGED <<v_pc, field, arg>>
    /\ UNCHANGED <<parseVars, nameVars, mainVars, backupVars, userVars>>

\* int(request.form.get(name) or 0) raises ValueError
FormIntRaises(f) ==
    FormGet(f, <<>>) # <<>> /\ ~IsIntLiteral(Strip(FormGet(f, <<>>)))

\* int(request.form.get(name) or 0) or None
FormInt(f) ==
    LET v == Strip(FormGet(f, <<>>))
    IN  IF FormGet(f, <<>>) = <<>> \/ ParseInt(v) = 0 THEN None
        ELSE IntVal(ParseInt(v))

\* routes_admin.py, lines 421-433 (add) and 483-491 (edit of an article whose
\* title is old_title)
FormArticle ==
    /\ v_pc = "form_article"
    /\ returned = <<>>
    /\ \E old_title \in {<<>>, <<"O">>} :
        returned' =
            <<IF FormIntRaises(field.pages_from) \/ FormIntRaises(field.pages_to)
              THEN Raised
              ELSE ArticleMade(Strip(FormGet(field.title, old_title)),
                               FormInt(field.pages_from), FormInt(field.pages_to))>>
    /\ UNCHANGED <<v_pc, field, arg>>
    /\ UNCHANGED <<parseVars, nameVars, mainVars, backupVars, userVars>>

\* migrate_old_db.py, lines 340-344: number_int of a nomera row
IssueNumberCall ==
    /\ v_pc = "issue_number"
    /\ returned = <<>>
    /\ returned' = <<Returned(IssueNumber(arg))>>
    /\ UNCHANGED <<v_pc, field, arg>>
    /\ UNCHANGED <<parseVars, nameVars, mainVars, backupVars, userVars>>

\* run_migration, line 219 and the reads that follow it (lines 223-235)
DetectAndRead ==
    /\ v_pc = "encoding"
    /\ returned = <<>>
    /\ LET enc == detect_encoding(field)
       IN  returned' = <<Returned([enc |-> enc, read |-> ReadReplacing(enc, field)])>>
    /\ UNCHANGED <<v_pc, field, arg>>
    /\ UNCHANGED <<parseVars, nameVars, mainVars, backupVars, userVars>>

CallsNext ==
    \/ DetectAndRead
    \/ IssueNumberCall
    \/ ParsePages
    \/ LooksLikeNameCall
    \/ ImportAuthors
    \/ FormAuthors
    \/ ImportArticle
    \/ FormArticle

(***************************************************************************)
(* create_backup (backup.py:7-32), called by admin_backup_create           *)
(* (routes_admin.py:553-558)                                               *)
(***************************************************************************)
\* line 28: backups[10:] is removed
KeepBackups == 10

File(name, mtime) == [name |-> name, mtime |-> mtime]

NoDbFile == [exists |-> FALSE, mtime |-> 0]
DbFile(mtime) == [exists |-> TRUE, mtime |-> mtime]

NotCalled == [called |-> FALSE, path |-> {}]
ReturnedNone == [called |-> TRUE, path |-> {}]
ReturnedPath(name) == [called |-> TRUE, path |-> {name}]

BackupOff ==
    /\ b_pc = "off"
    /\ db_path = NoDbFile
    /\ backups_dir = {}
    /\ now = 0
    /\ backup_path = NotCalled

BackupInit ==
    /\ b_pc = "ready"
    /\ db_path \in {NoDbFile, DbFile(0)}
    /\ backups_dir = {}
    /\ now = 0
    /\ backup_path = NotCalled

\* line 22: shutil.copy2 writes the file of that name, or overwrites it, and
\* gives it the modification time of the database file
Copy2(files, name) ==
    {f \in files : f.name # name} \cup {File(name, db_path.mtime)}

\* line 27: sorted(..., key=st_mtime, reverse=True)[:10].  Files of one
\* mtime stay in the order glob yields them, which is the directory's own:
\* any files that no removed file is newer than may be the ones kept.
NewestFirst(files, kept) ==
    /\ kept \subseteq files
    /\ Cardinality(kept) =
           (IF Cardinality(files) > KeepBackups THEN KeepBackups ELSE Cardinality(files))
    /\ \A k \in kept, r \in files \ kept : k.mtime >= r.mtime

\* lines 7-32, the whole call; the timestamp has a resolution of one second
create_backup ==
    /\ b_pc = "ready"
    /\ IF ~db_path.exists
       THEN /\ backup_path' = ReturnedNone
            /\ UNCHANGED <<backups_dir, now>>
       ELSE \E timestamp \in {now, now + 1} :
                /\ timestamp <= MaxNow
                /\ now' = timestamp
                /\ \E kept \in SUBSET Copy2(backups_dir, timestamp) :
                       /\ NewestFirst(Copy2(backups_dir, timestamp), kept)
                       /\ backups_dir' = kept
                /\ backup_path' = ReturnedPath(timestamp)
    /\ UNCHANGED <<b_pc, db_path>>
    /\ UNCHANGED <<parseVars, nameVars, mainVars, callVars, userVars>>

\* the application commits to the database file (or creates it, app.py
\* db.create_all): its mtime moves on; mtime counts the modifications
DbWrite ==
    /\ b_pc = "ready"
    /\ db_path.mtime < MaxWrites
    /\ db_path' = DbFile(IF db_path.exists THEN db_path.mtime + 1 ELSE 0)
    /\ UNCHANGED <<b_pc, backups_dir, now, backup_path>>
    /\ UNCHANGED <<parseVars, nameVars, mainVars, callVars, userVars>>

BackupNext == create_backup \/ DbWrite

(***************************************************************************)
(* Requests of logged-in users: load_user (app.py:49-51), admin_login,     *)
(* admin_user_add and admin_user_delete (routes_admin.py:98-110, 578-608). *)
(* The server handles requests in threads: a request is a sequence of      *)
(* steps, each one reading or committing the User table.                   *)
(***************************************************************************)
Clients == 1..MaxClients

Idle == [pc |-> "idle", kind |-> "none", current_user |-> 0, user_id |-> 0]

Handling(kind, current_user, user_id) ==
    [pc |-> "handler", kind |-> kind, current_user |-> current_user,
     user_id |-> user_id]

UsersOff ==
    /\ u_pc = "off"
    /\ user_table = {}
    /\ cookie = <<>>
    /\ request = <<>>
    /\ response = <<>>

\* init_data (app.py:103-113) has made the first user; nobody is logged in
UsersInit ==
    /\ u_pc = "serving"
    /\ user_table = {1}
    /\ cookie = [c \in Clients |-> 0]
    /\ request = [c \in Clients |-> Idle]
    /\ response = [c \in Clients |-> 0]

Respond(c, status) ==
    /\ request' = [request EXCEPT ![c] = Idle]
    /\ response' = [response EXCEPT ![c] = status]

\* routes_admin.py:98-110: a client that is not logged in as an existing user
\* posts the name and password of a user
admin_login(c) ==
    /\ u_pc = "serving"
    /\ request[c].pc = "idle"
    /\ cookie[c] \notin user_table
    /\ \E user \in user_table : cookie' = [cookie EXCEPT ![c] = user]
    /\ response' = [response EXCEPT ![c] = 302]
    /\ UNCHANGED <<u_pc, user_table, request>>
    /\ UNCHANGED <<parseVars, nameVars, mainVars, callVars, backupVars>>

\* app.py:49-51 under admin_required (routes_admin.py:64-71): the request of
\* a client whose session holds a user id starts with User.query.get
load_user(c) ==
    /\ u_pc = "serving"
    /\ request[c].pc = "idle"
    /\ cookie[c] # 0
    /\ IF cookie[c] \in user_table
       THEN /\ \E kind \in {"add", "delete"}, user_id \in 1..MaxUserId :
                   request' = [request EXCEPT ![c] =
                       Handling(kind, cookie[c], IF kind = "add" THEN 0 ELSE user_id)]
            /\ UNCHANGED response
       ELSE Respond(c, 302)
    /\ UNCHANGED <<u_pc, user_table, cookie>>
    /\ UNCHANGED <<parseVars, nameVars, mainVars, callVars, backupVars>>

\* the id SQLite gives a new row: one more than the largest in the table
NextUserId == IF user_table = {} THEN 1
              ELSE (CHOOSE x \in user_table : \A y \in user_table : y <= x) + 1

\* routes_admin.py:578-598: a form with a field missing or a taken username
\* is refused, any other is added and committed
admin_user_add(c) ==
    /\ u_pc = "serving"
    /\ request[c].pc = "handler"
    /\ request[c].kind = "add"
    /\ \/ /\ Respond(c, 400)
          /\ UNCHANGED user_table
       \/ /\ NextUserId <= MaxUserId
          /\ user_table' = user_table \cup {NextUserId}
          /\ Respond(c, 200)
    /\ UNCHANGED <<u_pc, cookie>>
    /\ UNCHANGED <<parseVars, nameVars, mainVars, callVars, backupVars>>

\* routes_admin.py:603: User.query.get_or_404(user_id)
get_or_404(c) ==
    /\ u_pc = "serving"
    /\ request[c].pc = "handler"
    /\ request[c].kind = "delete"
    /\ IF request[c].user_id \in user_table
       THEN /\ request' = [request EXCEPT ![c].pc = "found"]
            /\ UNCHANGED response
       ELSE Respond(c, 404)
    /\ UNCHANGED <<u_pc, user_table, cookie>>
    /\ UNCHANGED <<parseVars, nameVars, mainVars, callVars, backupVars>>

\* routes_admin.py:604: user.id == current_user.id
IsSelf(req) == req.user_id = req.current_user

\* routes_admin.py:604-608: refuse to delete oneself, else delete and commit;
\* the DELETE of a row another request has deleted matches no row and raises
admin_user_delete(c) ==
    /\ u_pc = "serving"
    /\ request[c].pc = "found"
    /\ IF IsSelf(request[c])
       THEN /\ Respond(c, 400)
            /\ UNCHANGED user_table
       ELSE /\ user_table' = user_table \ {request[c].user_id}
            /\ Respond(c, IF request[c].user_id \in user_table THEN 200 ELSE 500)
    /\ UNCHANGED <<u_pc, cookie>>
    /\ UNCHANGED <<parseVars, nameVars, mainVars, callVars, backupVars>>

UsersNext ==
    \E c \in Clients :
        \/ admin_login(c)
        \/ load_user(c)
        \/ admin_user_add(c)
        \/ get_or_404(c)
        \/ admin_user_delete(c)

InitBackup == BackupInit /\ ParseOff /\ NamesOff /\ MainOff /\ CallsOff /\ UsersOff

SpecBackup == InitBackup /\ [][BackupNext]_vars

InitUsers == UsersInit /\ ParseOff /\ NamesOff /\ MainOff /\ CallsOff /\ BackupOff

SpecUsers == InitUsers /\ [][UsersNext]_vars

InitNames == NamesInit /\ ParseOff /\ MainOff /\ CallsOff /\ BackupOff /\ UsersOff

SpecNames == InitNames /\ [][NamesNext]_vars

InitParse == ParseInit /\ NamesOff /\ MainOff /\ CallsOff /\ BackupOff /\ UsersOff

Init == MainInit /\ ParseOff /\ NamesOff /\ CallsOff /\ BackupOff /\ UsersOff

Spec == Init /\ [][Next]_vars

\* the loop is a sequential while loop: an iteration that can run does run
SpecParseFair == InitParse /\ [][ParseNext]_vars /\ WF_vars(ParseNext)

SpecParse == InitParse /\ [][ParseNext]_vars

InitCalls == CallsInit /\ ParseOff /\ NamesOff /\ MainOff /\ BackupOff /\ UsersOff

SpecCalls == InitCalls /\ [][CallsNext]_vars

(***************************************************************************)
(* Claims about the importer and the store                                 *)
(***************************************************************************)
C1_Unmapped(row) == Key(clean_val(At(row, 1))) \notin Keys(razd_to_nomer)

C1_AtArticleRow == mig_pc = "articles" /\ row_i <= Len(articles_raw)

\* C1: in run_migration, the step that handles an article row whose section
\* id (field 1) is not a key of razd_to_nomer adds exactly one to the skip
\* counter and creates no Article and no ArticleAuthor.
C1_UnmappedSectionSkipped ==
    [][(C1_AtArticleRow /\ C1_Unmapped(articles_raw[row_i]))
          => /\ skipped' = skipped + 1
             /\ sess'.articles = sess.articles
             /\ sess'.authors = sess.authors
             /\ db' = db
             /\ row_i' = row_i + 1]_vars

\* a titled row of an unmapped section has just been handled, after a row
\* that was imported
C1_Witness ==
    /\ mig_pc = "articles"
    /\ row_i = 3
    /\ C1_Unmapped(articles_raw[2])
    /\ Truthy(clean_val(At(articles_raw[2], 4)))
    /\ skipped = 1
    /\ article_count = 1

\* a step of a run
C12_RunStep == mig_pc # "idle" \/ mig_pc' # "idle"

\* C12: the store mutations of one run become visible in a single commit at
\* the end: no step of a run changes the committed store except the one that
\* ends it with the final commit, so a run that aborts leaves the committed
\* store as it was before the run.
C12_SingleCommit ==
    [][C12_RunStep
          => \/ db' = db
             \/ /\ mig_pc' = "idle"
                /\ run_log' # <<>>
                /\ run_log'[Len(run_log')].ok]_vars

\* the step ends a run that could not read the dump
C13_ReadFailed ==
    /\ run_log' # run_log
    /\ run_log' # <<>>
    /\ ~run_log'[Len(run_log')].dump.readable

\* C13: when the dump file is missing or unreadable the run aborts before any
\* store mutation: it never holds tables of such a file while it works, and
\* the Journals, Issues, Articles, Authors and Users are unchanged.
C13_UnreadableDumpLeavesStore ==
    [][(C13_ReadFailed \/ ~dump'.readable)
          => /\ db' = db
             /\ C13_ReadFailed
             /\ ~run_log'[Len(run_log')].ok
             /\ mig_pc = "idle" /\ mig_pc' = "idle"]_vars

\* a run on a populated store has just failed to read the dump
C13_Witness ==
    /\ run_log # <<>>
    /\ ~run_log[Len(run_log)].dump.readable
    /\ db.journals # {} /\ db.issues # {} /\ db.articles # {}
    /\ db.authors # {} /\ db.users # {}

\* C14: for every readable dump, whatever its rows hold, the run reaches its
\* final commit and summary; failing to read the dump file is the only thing
\* that makes a run fail.
C14_OnlyReadFailureFails ==
    \A x \in DOMAIN run_log : run_log[x].dump.readable => run_log[x].ok

\* some row has fewer fields than its table
C15_HasShortRow(d) ==
    \/ \E x \in DOMAIN d.journals : Len(d.journals[x]) < JournalFields
    \/ \E x \in DOMAIN d.nomera : Len(d.nomera[x]) < NomeraFields
    \/ \E x \in DOMAIN d.razdel_numbers : Len(d.razdel_numbers[x]) < RazdelFields
    \/ \E x \in DOMAIN d.articles : Len(d.articles[x]) < ArticleFields

\* the rows of full length import without an error
C15_FullRowsSound(d) ==
    /\ \A x \in DOMAIN d.journals :
           Len(d.journals[x]) = JournalFields => ~JournalRowRaises(d.journals[x])
    /\ \A x, y \in DOMAIN d.journals :
           (/\ x # y
            /\ Len(d.journals[x]) = JournalFields
            /\ Len(d.journals[y]) = JournalFields)
               => JournalSlug(d.journals[x]) # JournalSlug(d.journals[y])
    /\ \A x \in DOMAIN d.articles :
           Len(d.articles[x]) = ArticleFields => ~ArticleRowRaises(d.articles[x])

\* C15: a row with fewer fields than the legacy schema expects does not
\* raise: the run goes on with the next row and ends with its commit.
C15_ShortRowsTolerated ==
    \A x \in DOMAIN run_log :
        (/\ run_log[x].dump.readable
         /\ C15_HasShortRow(run_log[x].dump)
         /\ C15_FullRowsSound(run_log[x].dump))
            => run_log[x].ok

\* the section map that keeps, for a section id, its first row
RECURSIVE C16_FirstSeen(_, _)
C16_FirstSeen(rws, m) ==
    IF rws = <<>> THEN m
    ELSE LET razd_id == clean_val(At(Head(rws), 0))
             nomer_id == clean_val(At(Head(rws), 1))
         IN  C16_FirstSeen(Tail(rws),
                 IF /\ razd_id # None /\ nomer_id # None
                    /\ Key(razd_id) \notin Keys(m)
                 THEN Put(m, razd_id, nomer_id)
                 ELSE m)

\* C16: of several razdel_numbers rows with the same section id, the section
\* map keeps the issue id of the first one in dump order.
C16_FirstSeenWins ==
    mig_pc # "idle" => razd_to_nomer = C16_FirstSeen(razdel_raw, {})

\* the step ends a run with its final commit and summary
C18_RunCompleted ==
    /\ mig_pc = "articles" /\ mig_pc' = "idle"
    /\ run_log'[Len(run_log')].ok

C19_Owned(store, journal) ==
    LET is == {x \in store.issues : x.journal_id = journal.id}
        as == {x \in store.articles : x.issue_id \in {y.id : y \in is}}
        us == {x \in store.authors : x.article_id \in {y.id : y \in as}}
    IN  [issues |-> is, articles |-> as, authors |-> us]

\* C19: the delete operation is available for a Journal that owns Issues, and
\* when it succeeds none of the Journal's Issues, of their Articles and of
\* those Articles' Authors remains.
C19_JournalDeleteCascades ==
    \A journal \in db.journals :
        LET owned == C19_Owned(db, journal)
            after == DeleteJournals(db, {journal})
        IN  /\ ~JournalDeleteRefused(db, journal)
            /\ journal \notin after.journals
            /\ after.issues \cap owned.issues = {}
            /\ after.articles \cap owned.articles = {}
            /\ after.authors \cap owned.authors = {}

\* the new ids recorded in a map from legacy ids
C20_Values(m) == {p[2].n : p \in m}

\* every journal row of the dump has its Journal and its entry in the map
C20_JournalsDone ==
    /\ mig_pc \in {"issues", "articles"}
    /\ Cardinality(sess.journals) = Len(journals_raw)
    /\ \A x \in DOMAIN journals_raw :
           Key(clean_val(At(journals_raw[x], 0))) \in Keys(old_to_new_journal)
    /\ C20_Values(old_to_new_journal) \subseteq {y.id : y \in sess.journals}

\* the loop over the issue rows is over and what it recorded are Issues
C20_IssuesDone ==
    /\ mig_pc = "articles"
    /\ \A x \in DOMAIN nomera_raw :
           Truthy(Get(old_to_new_journal, clean_val(At(nomera_raw[x], 1))))
               => Key(clean_val(At(nomera_raw[x], 0))) \in Keys(old_to_new_issue)
    /\ C20_Values(old_to_new_issue) \subseteq {y.id : y \in sess.issues}

\* C20: during a run no Issue is created before every Journal of the dump is
\* created and recorded in the map of ids, and no Article before every Issue
\* is; the journal_id of an Issue and the issue_id of an Article come from the
\* completed maps.
C20_DependencyOrder ==
    [][mig_pc # "idle"
          => /\ \A y \in sess'.issues \ sess.issues :
                    /\ C20_JournalsDone
                    /\ y.journal_id \in C20_Values(old_to_new_journal)
             /\ \A y \in sess'.articles \ sess.articles :
                    /\ C20_JournalsDone
                    /\ C20_IssuesDone
                    /\ y.issue_id \in C20_Values(old_to_new_issue)]_vars

\* a run has made its Journals, then its Issues, and now an Article
C20_Witness ==
    /\ mig_pc = "articles"
    /\ Cardinality(sess.journals) = 2
    /\ Cardinality(sess.issues) = 2
    /\ sess.articles # {}
    /\ C20_JournalsDone /\ C20_IssuesDone

\* the step handles one article row and the run goes on
C27_RowHandled == mig_pc = "articles" /\ mig_pc' = "articles"

\* C27: at the end of a completed run the Articles created plus the skip
\* counter are the article rows of the dump: each row is imported once or
\* counted as skipped once, never both and never neither, and an issue
\* passed over for an unknown journal adds nothing to the skip counter.
C27_RowsAccounted ==
    [][/\ C27_RowHandled
           => /\ row_i' = row_i + 1
              /\ \/ /\ Cardinality(sess'.articles) = Cardinality(sess.articles) + 1
                    /\ article_count' = article_count + 1
                    /\ skipped' = skipped
                 \/ /\ sess'.articles = sess.articles
                    /\ article_count' = article_count
                    /\ skipped' = skipped + 1
       /\ mig_pc = "issues" => skipped' = 0 /\ skipped = 0
       /\ C18_RunCompleted
           => /\ article_count + skipped = Len(articles_raw)
              /\ Cardinality(db'.articles) = article_count
              /\ run_log'[Len(run_log')].skipped = skipped]_vars

\* a run has completed that imported an article, skipped another, and passed
\* over an issue of an unknown journal
C27_Witness ==
    /\ run_log # <<>>
    /\ LET e == run_log[Len(run_log)]
       IN  /\ e.ok
           /\ e.articles >= 1
           /\ e.skipped >= 1
           /\ e.issues < Len(e.dump.nomera)
           /\ e.journals = Len(e.dump.journals)
           /\ e.articles + e.skipped = Len(e.dump.articles)

C2_Imports(row) == ~JournalRowRaises(row)

\* two journal rows whose slugs, as lines 296-299 compute them, are the same
C2_SameSlug(d) ==
    /\ Len(d.journals) = 2
    /\ C2_Imports(d.journals[1]) /\ C2_Imports(d.journals[2])
    /\ JournalSlug(d.journals[1]) = JournalSlug(d.journals[2])

C2_NumericSuffix(slug, base) ==
    /\ Len(slug) > Len(base) + 1
    /\ SubSeq(slug, 1, Len(base) + 1) = base \o <<"-">>
    /\ AllDigits(SubSeq(slug, Len(base) + 2, Len(slug)))

\* C2: a run on a dump with two journal rows that normalize to the same slug
\* completes and leaves two Journals with distinct slugs, the second one
\* being the first one's slug with a numeric suffix.
C2_CollidingSlugsSuffixed ==
    (run_log # <<>> /\ C2_SameSlug(run_log[Len(run_log)].dump))
        => /\ run_log[Len(run_log)].ok
           /\ \E j1, j2 \in db.journals :
                /\ j1.id < j2.id
                /\ j1.slug = JournalSlug(run_log[Len(run_log)].dump.journals[1])
                /\ C2_NumericSuffix(j2.slug, j1.slug)

\* C3: every persisted Journal slug is lowercase with no leading or trailing
\* whitespace, and no two persisted Journals share a slug.
C3_SlugsNormalizedAndUnique ==
    \A j \in db.journals :
        /\ j.slug = Strip(Lower(j.slug))
        /\ \A k \in db.journals : k.slug = j.slug => k = j

\* C4: in every committed state every Issue references an existing Journal,
\* every Article an existing Issue and every ArticleAuthor an existing
\* Article.
C4_ReferentialIntegrity ==
    /\ \A x \in db.issues : \E j \in db.journals : j.id = x.journal_id
    /\ \A a \in db.articles : \E x \in db.issues : x.id = a.issue_id
    /\ \A w \in db.authors : \E a \in db.articles : a.id = w.article_id

\* the first imported issue was deleted with its article and its authors;
\* the second one still has an article with an author
C4_Witness ==
    /\ \E x \in db.issues : x.id = 2
    /\ ~\E x \in db.issues : x.id = 1
    /\ \E a \in db.articles, w \in db.authors : w.article_id = a.id
    /\ run_log = <<>>

C5_Counts(e) == <<e.ok, e.journals, e.issues, e.articles, e.authors, e.skipped>>

\* C5: two runs of run_migration made in a row on the same dump end with the
\* same counts of Journals, Issues, Articles, Authors and skipped articles,
\* whatever the store held before the first run.
C5_SameCountsOnRerun ==
    (Len(run_log) = 2 /\ run_log[1].dump = run_log[2].dump)
        => C5_Counts(run_log[1]) = C5_Counts(run_log[2])

\* a second run that cleared what the first one made, and recreated it
C5_Witness ==
    /\ Len(run_log) = 2
    /\ run_log[1].dump = run_log[2].dump
    /\ run_log[2].ok
    /\ run_log[2].journals = 2
    /\ run_log[2].issues = 2
    /\ run_log[2].articles = 1
    /\ run_log[2].authors = 2
    /\ run_log[2].skipped = 1
    /\ db.articles # {}

(***************************************************************************)
(* Claims about parse_pages and about calls on values that are not text    *)
(***************************************************************************)
\* the names of author rows read in ascending order
C21_Names(as) ==
    LET sorted == ByOrder(as) IN [x \in DOMAIN sorted |-> sorted[x].full_name]

\* the names of the source that are not blank, in the order of the source
C21_Source ==
    IF v_pc = "form_authors"
    THEN SelectSeq([x \in DOMAIN field |-> Strip(field[x])], LAMBDA n : n # <<>>)
    ELSE IF arg.k # "text" THEN <<>>
    ELSE LET pieces == SplitOn(arg.s, ",")
         IN  SelectSeq([x \in DOMAIN pieces |-> strip_html(pieces[x])],
                       LAMBDA n : n # <<>>)

\* C21: the stored Authors of an Article, read in ascending order, are the
\* names of the source (the comma-joined legacy list, the submitted
\* author_name[] list) in the sequence of the source, the blank entries
\* dropped, and no two authors of the article share an order value.
C21_AuthorOrder ==
    (/\ v_pc \in {"import_authors", "form_authors"}
     /\ returned # <<>>
     /\ ~returned[1].raised)
        => LET call == returned[1].value
               mine == {x \in call.after : x.article_id = call.article_id}
           IN  /\ \A x, y \in mine : x.order = y.order => x = y
               /\ C21_Names(mine) = C21_Source

\* an edit has replaced the two authors of an article by two others, given
\* after a blank entry
C21_Witness ==
    /\ v_pc = "form_authors"
    /\ field = <<<<SP>>, <<"B">>, <<"A">>>>
    /\ returned # <<>>
    /\ returned[1].value.article_id = 1
    /\ Cardinality({x \in returned[1].value.before : x.article_id = 1}) = 2
    /\ C21_Names({x \in returned[1].value.after : x.article_id = 1})
           = <<<<"B">>, <<"A">>>>

\* a call has made an Article row
C22_Stored ==
    /\ v_pc \in {"import_article", "form_article"}
    /\ returned # <<>>
    /\ ~returned[1].raised
    /\ returned[1].value.stored

\* C22: every persisted Article has a title that is not empty, made by the
\* importer (a row without a title, also one whose title is empty once the
\* tags are stripped, is skipped) or by the admin add and edit forms.
C22_TitleNonEmpty == C22_Stored => returned[1].value.title # <<>>

\* C23: no persisted Article has pages_to set while pages_from is absent,
\* for the pairs parse_pages returns in the import and for the Articles made
\* or edited through the admin forms.
C23_PagesToNeedsFrom ==
    C22_Stored => (returned[1].value.pages_to # None
                      => returned[1].value.pages_from # None)

\* the leading integer of a legacy number field, 1 when there is none
C24_Leading(f) ==
    IF f = NULL \/ LeadDigits(f) = <<>> THEN 1 ELSE DigitsToInt(LeadDigits(f))

\* C24: the stored Issue.number is the leading integer of the legacy number
\* field ('5-6' gives 5, a plain integer n gives n), and 1 when the field is
\* absent or has no leading digits.
C24_IssueNumber ==
    (v_pc = "issue_number" /\ returned # <<>>)
        => returned[1].value = C24_Leading(field)

\* the prefix of the file decodes strictly under the k-th encoding and holds
\* at least 2 of the probe words
C26_Qualifies(file, k) ==
    LET enc == ENCODINGS_TO_TRY[k]
        prefix == Chunk(file)
    IN  /\ \A x \in DOMAIN prefix : ~DecodeRaises(enc, prefix[x])
        /\ \E v, w \in TestWords :
               /\ v # w
               /\ \E x \in DOMAIN prefix : DecodedWord(enc, prefix[x]) = v
               /\ \E x \in DOMAIN prefix : DecodedWord(enc, prefix[x]) = w

\* C26: detect_encoding returns the first encoding of utf-8, cp1251, cp866,
\* koi8-r, latin1 under which the prefix of the file decodes strictly and
\* holds at least 2 of the 4 probe words; an encoding that fails to decode is
\* passed over; with no such encoding it returns utf-8, and the tables are
\* then read to the end, the undecodable bytes replaced.
C26_FirstQualifying ==
    (v_pc = "encoding" /\ returned # <<>>)
        => LET good == {k \in DOMAIN ENCODINGS_TO_TRY : C26_Qualifies(field, k)}
               enc == returned[1].value.enc
           IN  /\ ~returned[1].raised
               /\ good = {} => enc = "utf-8"
               /\ good # {} =>
                      \E k \in good : /\ enc = ENCODINGS_TO_TRY[k]
                                       /\ \A j \in good : k <= j
               /\ Len(returned[1].value.read) = Len(field)

\* no encoding qualified for a file that utf-8 cannot decode: the fallback
\* was returned and the read replaced the bytes
C26_Witness ==
    /\ v_pc = "encoding"
    /\ returned # <<>>
    /\ \A k \in DOMAIN ENCODINGS_TO_TRY : ~C26_Qualifies(field, k)
    /\ returned[1].value.enc = "utf-8"
    /\ \E x \in DOMAIN field : returned[1].value.read[x] = "U+FFFD"
    /\ \E x \in DOMAIN field : field[x].kind = "word"

\* the field with the en-dash and the em-dash written as a hyphen
C11_Hyphened(f) == Replace(Replace(f, <<ENDASH>>, <<"-">>), <<EMDASH>>, <<"-">>)

\* what the field says: <<A, B>> for 'A-B', <<A>> for a leading integer A
\* without a range, <<>> for an empty or absent field
C11_Reading(f) ==
    LET h == C11_Hyphened(f)
        from == LeadDigits(h)
        rest == SubSeq(h, Len(from) + 1, Len(h))
    IN  IF f = <<>> \/ f = NULL THEN <<>>
        ELSE IF from # <<>> /\ rest # <<>> /\ Head(rest) = "-" /\ AllDigits(Tail(rest))
        THEN <<DigitsToInt(from), DigitsToInt(Tail(rest))>>
        ELSE <<DigitsToInt(from)>>

\* the fields the claim speaks of
C11_Covered(f) ==
    \/ f = <<>> \/ f = NULL
    \/ LET h == C11_Hyphened(f)
           from == LeadDigits(h)
           rest == SubSeq(h, Len(from) + 1, Len(h))
       IN  /\ from # <<>>
           /\ \/ rest # <<>> /\ Head(rest) = "-" /\ AllDigits(Tail(rest))
              \/ ~Contains(rest, <<"-">>)

C11_Expected(f) ==
    LET r == C11_Reading(f)
    IN  IF Len(r) = 2 THEN <<IntVal(r[1]), IntVal(r[2])>>
        ELSE IF Len(r) = 1 THEN <<IntVal(r[1]), None>>
        ELSE <<None, None>>

\* C11: parse_pages maps 'A-B' to (A, B), a leading integer A without a range
\* to (A, None) and an empty or absent value to (None, None), the same with
\* an en-dash or em-dash for the hyphen, both for the text of the field and
\* for the value clean_val makes of it.
C11_ParsePages ==
    (v_pc = "pages" /\ returned # <<>> /\ C11_Covered(field))
        => returned[1] = Returned(C11_Expected(field))

\* C17: Article._looks_like_name never raises: for every input, a value that
\* is not a text and texts of any length included, it returns a boolean, and
\* False for what is not a text.
C17_NeverRaises ==
    (v_pc = "name" /\ returned # <<>>)
        => /\ ~returned[1].raised
           /\ returned[1].value \in BOOLEAN
           /\ arg.k # "text" => returned[1].value = FALSE

(***************************************************************************)
(* Claims about the name heuristics                                        *)
(***************************************************************************)
\* the four name shapes, stated over positions of the text
C8_SurnameThenInitial(t, U, L) ==
    \E a, c \in 1..Len(t) :
        /\ a < c /\ c < Len(t)
        /\ t[a] \in U /\ t[c] \in U /\ t[c + 1] = "."
        /\ LET seg == SubSeq(t, a + 1, c - 1)
               rest == LStripSet(seg, L)
           IN  /\ Len(rest) < Len(seg)
               /\ rest # <<>>
               /\ \A x \in DOMAIN rest : rest[x] \in Whitespace

C8_Gap(g, U) ==
    LET cls == <<Whitespace, U, {"."}, Whitespace>>
    IN  \E m \in SUBSET (1..4) :
            /\ Len(g) = Cardinality(m)
            /\ \A x \in 1..Len(g) :
                   \E y \in m : /\ Cardinality({z \in m : z < y}) = x - 1
                                /\ g[x] \in cls[y]

C8_InitialsThenSurname(t, U, L) ==
    \E a, b \in 1..Len(t) :
        /\ a + 1 < b /\ b < Len(t)
        /\ t[a] \in U /\ t[a + 1] = "."
        /\ t[b] \in U /\ t[b + 1] \in L
        /\ C8_Gap(SubSeq(t, a + 2, b - 1), U)

C8_Shape(t) ==
    \/ C8_SurnameThenInitial(t, CyrUpper, CyrLower)
    \/ C8_InitialsThenSurname(t, CyrUpper, CyrLower)
    \/ C8_SurnameThenInitial(t, LatUpper, LatLower)
    \/ C8_InitialsThenSurname(t, LatUpper, LatLower)

C8_WordStarts(t) ==
    {x \in 1..Len(t) : t[x] \notin Whitespace /\ (x = 1 \/ t[x - 1] \in Whitespace)}

C8_Denied(t) ==
    \E w \in Denylist : \E k \in 1..Len(t) :
        /\ k + Len(w) - 1 <= Len(t)
        /\ \A x \in 1..Len(w) : LowerChar(t[k + x - 1]) = w[x]

C8_Rule(txt) ==
    LET t == Strip(txt)
    IN  IF t = <<>> \/ Len(t) > 40 THEN FALSE
        ELSE IF C8_Denied(t) THEN FALSE
        ELSE IF C8_Shape(t) THEN TRUE
        ELSE IF /\ Cardinality(C8_WordStarts(t)) \in {2, 3}
                /\ Len(t) <= 25
                /\ \A x \in C8_WordStarts(t) : IsUpper(t[x])
             THEN TRUE
        ELSE FALSE

\* C8: _looks_like_name returns what the ordered five-step rule gives (lengths
\* taken after trimming): false for an empty or over-40 text, false for a text
\* holding a denylist substring even when it is name-shaped, true for one of
\* the four surname/initial shapes, true for 2-3 capitalized words of at most
\* 25 characters, false otherwise.
C8_FiveStepRule == verdict # <<>> => verdict[1] = C8_Rule(text)

\* a name-shaped text that holds a denylist word has been rejected
C8_Witness ==
    /\ verdict = <<FALSE>>
    /\ Len(Strip(text)) <= 40
    /\ C8_Shape(Strip(text))
    /\ C8_Denied(Strip(text))

\* C9: _clean_name is idempotent: cleaning a cleaned name changes nothing.
C9_CleanNameIdempotent == recleaned # <<>> => recleaned[1] = cleaned[1]

\* a text that lost an index marker on the first cleaning was cleaned again
C9_Witness ==
    /\ recleaned # <<>>
    /\ cleaned[1] # <<>>
    /\ Len(cleaned[1]) + 2 <= Len(text)

\* the characters of the run the claim names: white space, digits, the hyphen
\* and dash variants with the ASCII hyphen, the superscript digits
C25_RunChars == Whitespace \cup Digits \cup {"-", MINUS, ENDASH} \cup Superscripts

\* C25: _clean_name removes the whole maximal trailing run of white space,
\* digits, hyphen and dash variants (the ASCII hyphen too) and superscript
\* digits, and nothing else: the result does not end with one of them and is
\* what stands before the run, apart from surrounding white space.
C25_TrailingRunRemoved ==
    cleaned # <<>>
        => /\ cleaned[1] = <<>> \/ cleaned[1][Len(cleaned[1])] \notin C25_RunChars
           /\ cleaned[1] = Strip(RStripSet(text, C25_RunChars))

C10_Kept == {a \in authors : looks_like_name(a.full_name)}

C10_Rank(a) == Cardinality({b \in C10_Kept : b.order < a.order}) + 1

C10_Names ==
    [r \in 1..Cardinality(C10_Kept) |->
        clean_name((CHOOSE a \in C10_Kept : C10_Rank(a) = r).full_name)]

\* C10: authors_str is the ", "-join of the cleaned names of exactly the
\* authors that pass _looks_like_name, by ascending order; the rejected ones
\* are dropped, and with none passing the result is the empty string.
C10_AuthorsStr ==
    shown # <<>> =>
        /\ shown[1] = Join(C10_Names, <<",", SP>>)
        /\ C10_Kept = {} => shown[1] = <<>>

\* a rejected entry stood between two kept names
C10_Witness ==
    /\ shown # <<>>
    /\ \E a, b, c \in authors :
           /\ a.order < b.order /\ b.order < c.order
           /\ a \in C10_Kept /\ b \notin C10_Kept /\ c \in C10_Kept
           /\ a.full_name # c.full_name

(***************************************************************************)
(* Claims about parse_values and clean_val                                 *)
(***************************************************************************)
ParsedAll == p_pc = "done" /\ src_rows # <<>>

\* a request to delete one's own account is answered 400, the table untouched
C30_SelfDeleteRefused ==
    \A c \in Clients :
        (admin_user_delete(c) /\ request[c].user_id = request[c].current_user)
            => (user_table' = user_table /\ response'[c] = 400)

\* C30: whatever requests to add and delete users logged-in users send, one
\* after another or at the same time, a request to delete one's own account
\* is refused and changes nothing, and the User table never becomes empty.
C30_UserRemains ==
    /\ [][C30_SelfDeleteRefused]_vars
    /\ [](u_pc = "serving" => user_table # {})

\* the files a call took away: there before, or just written, and gone after
C29_Removed(name) == Copy2(backups_dir, name) \ backups_dir'

C29_Success ==
    \A name \in backup_path'.path :
        /\ Cardinality(backups_dir') <= KeepBackups
        /\ \E f \in backups_dir' : f.name = name
        /\ \A r \in C29_Removed(name), k \in backups_dir' : r.name < k.name

C29_NoDatabase ==
    ~db_path.exists => (backup_path'.path = {} /\ backups_dir' = backups_dir)

\* C29: a call of create_backup that finds the database file leaves at most
\* 10 '.db' files in backups/, the file it has just written among them, and
\* every file it removed was made before every file it kept; a call that
\* finds no database file returns None and leaves backups/ as it was.
C29_KeepsNewestTen == [][create_backup => (C29_Success /\ C29_NoDatabase)]_vars

C28_Count(s, c) == Cardinality({k \in 1..Len(s) : s[k] = c})

\* "(" minus ")" among the first k characters
C28_Depth(s, k) == C28_Count(SubSeq(s, 1, k), "(") - C28_Count(SubSeq(s, 1, k), ")")

\* a written line, or a line without quotes and backslashes whose parentheses
\* pair up
C28_Balanced ==
    \/ src_rows # <<>>
    \/ /\ C28_Count(data, QUOTE) = 0
       /\ C28_Count(data, BSLASH) = 0
       /\ \A k \in 1..Len(data) : C28_Depth(data, k) >= 0
       /\ C28_Depth(data, Len(data)) = 0

\* one loop iteration: the index grows and stays inside the text; the
\* returned list only grows, by one tuple, at a ")" outside a string
C28_Iteration ==
    (p_pc = "scan" /\ p_pc' = "scan") =>
        /\ i' > i
        /\ i' <= Len(data)
        /\ \/ rows' = rows
           \/ /\ SubSeq(rows', 1, Len(rows)) = rows
              /\ Len(rows') = Len(rows) + 1
              /\ data[i + 1] = ")" /\ ~in_string /\ ~escape_next

C28_State ==
    /\ i <= Len(data)
    /\ Len(rows) <= C28_Count(SubSeq(data, 1, i), "(")
    /\ Len(rows) <= C28_Count(SubSeq(data, 1, i), ")")
    /\ p_pc = "done" => i = Len(data)
    /\ C28_Balanced => /\ paren_depth >= 0
                       /\ p_pc = "done" => paren_depth = 0

\* C28: parse_values ends on every line: each loop iteration moves the scan
\* index forward and never past the end of the text.  The returned list grows
\* only by one tuple at a time, at a ")" outside a string, so it holds no more
\* tuples than the text scanned so far has opening and closing parentheses,
\* and what follows the last closed tuple is not returned.  On a balanced
\* line the depth is never negative and is 0 at the end.
C28_ScanEnds ==
    /\ [][C28_Iteration]_vars
    /\ [](C28_State)
    /\ <>(p_pc = "done")

\* a closed tuple followed by an unterminated quote: the tuple is returned,
\* the remainder is not
C28_Witness ==
    /\ p_pc = "done"
    /\ src_rows = <<>>
    /\ data = <<"(", "a", ")", QUOTE, "a">>
    /\ rows = << <<"a">> >>
    /\ in_string
    /\ current_val = <<"a">>

\* C6: a text written as a single-quoted literal (quotes backslash-escaped or
\* doubled, backslashes doubled) comes back from parse_values and clean_val
\* as exactly that text, as the only field of its tuple.  The empty literal,
\* which clean_val turns into an absent value, is left out of the statement.
C6_QuotedTextRoundTrip ==
    (ParsedAll /\ src_rows \in TextInputs /\ src_rows[1][1].text # <<>>)
        => /\ Len(rows) = 1
           /\ Len(rows[1]) = 1
           /\ clean_val(rows[1][1]) = Text(src_rows[1][1].text)

\* C7: parse_values returns one tuple per written tuple and one field per
\* written field: commas and parentheses inside a quoted string neither split
\* a field nor end the tuple; a tuple is appended only by a ")" outside a
\* string that takes the depth from 1 to 0, and a field only by that ")" or by
\* a "," outside a string at depth 1.
C7_SameShape ==
    ParsedAll =>
        /\ Len(rows) = Len(src_rows)
        /\ \A r \in 1..Len(rows) : Len(rows[r]) = Len(src_rows[r])

C7_RowOnlyAtClose ==
    /\ Len(rows') # Len(rows) =>
          /\ Len(rows') = Len(rows) + 1
          /\ ~in_string /\ ~escape_next
          /\ data[i + 1] = ")" /\ paren_depth = 1 /\ paren_depth' = 0
    /\ Len(current_row') > Len(current_row) =>
          /\ ~in_string /\ ~escape_next
          /\ data[i + 1] = "," /\ paren_depth = 1

C7_TuplesAndFields == [](C7_SameShape) /\ [][C7_RowOnlyAtClose]_vars

\* a two-tuple line whose quoted fields hold a comma and a parenthesis
C7_Witness ==
    /\ ParsedAll
    /\ Len(src_rows) = 2
    /\ Len(src_rows[1]) = 2
    /\ src_rows[1][1] = Field(TRUE, <<",">>)
    /\ src_rows[1][2] = Field(TRUE, <<")">>)
    /\ Len(rows) = 2 /\ Len(rows[1]) = 2
    /\ rows[1][1] = <<",">>

====
